---- MODULE Spec2Model ----
(***************************************************************************)
(* A model of cang: the coin ledger (coin_manager.rs), the cost            *)
(* calculator / validator (resource_validator.rs), the lexer (lib.rs),     *)
(* the recursive-descent parser and the tree-walking evaluator             *)
(* (parser.rs), the validate -> spend -> evaluate orchestrator             *)
(* eval_with_validation (parser.rs), the quest manager (quest_system.rs)   *)
(* and the read/print loop's execute with its quest tracking (repl.rs).    *)
(***************************************************************************)
EXTENDS Integers, Sequences, FiniteSets, TLC

VARIABLES balances, env, last, calls, alive, profile, quest_manager,
          execution_context

vars == <<balances, env, last, calls, alive, profile, quest_manager,
          execution_context>>

(***************************************************************************)
(* Bounds of the model.                                                    *)
(***************************************************************************)
\* largest balance of one category the ledger is driven to
MaxBalance == 2
\* largest amount handed to add_coins
MaxAmt == 1
\* largest absolute value a session binding is driven to
MaxVal == 12
\* number of nested function-call frames the native stack holds
MaxCallDepth == 3
\* largest number of recorded expressions, and of output lines, an
\* execution context is driven to
MaxRecorded == 4

(***************************************************************************)
(* coin_manager.rs                                                         *)
(***************************************************************************)
CoinType == {"Variable", "Function"}

\* CoinError::InsufficientFunds { required, available, coin_type }
InsufficientFunds(required, available, coin_type) ==
    [variant |-> "CoinError", error |-> "InsufficientFunds",
     required |-> required, available |-> available, coin_type |-> coin_type]

\* CoinManager::with_balances
with_balances(variable_coins, function_coins) ==
    [Variable |-> variable_coins, Function |-> function_coins]

\* CoinManager::get_balance
get_balance(bal, coin_type) == bal[coin_type]

\* Result<(), CoinError> of the ledger, with the ledger after the call
UnitOk == [kind |-> "ok"]
LedgerResult(res, bal) == [res |-> res, bal |-> bal]

\* a spend without the funds check
spend_coins_unchecked(bal, coin_type, amt) ==
    LET current_balance == get_balance(bal, coin_type)
    IN  LedgerResult(UnitOk,
            [bal EXCEPT ![coin_type] =
                IF current_balance < amt THEN 0 ELSE current_balance - amt])

\* CoinManager::spend_coins
spend_coins(bal, coin_type, amt) ==
    LET current_balance == get_balance(bal, coin_type)
    IN  IF current_balance < amt
        THEN LedgerResult([kind |-> "err",
                           err |-> InsufficientFunds(amt, current_balance, coin_type)],
                          bal)
        ELSE LedgerResult(UnitOk,
                          [bal EXCEPT ![coin_type] = current_balance - amt])

\* CoinManager::spend_var_coin
spend_var_coin(bal) == spend_coins(bal, "Variable", 1)

\* CoinManager::spend_func_coin
spend_func_coin(bal) == spend_coins(bal, "Function", 1)

\* CoinManager::add_coins
add_coins(bal, amt, coin_type) ==
    [bal EXCEPT ![coin_type] = get_balance(bal, coin_type) + amt]

(***************************************************************************)
(* parser.rs: enum Expr                                                    *)
(***************************************************************************)
Number(n) == [kind |-> "Number", n |-> n]
StringLit(s) == [kind |-> "String", s |-> s]
Var(name) == [kind |-> "Var", name |-> name]
Let(name, val) == [kind |-> "Let", name |-> name, val |-> val]
FnDef(name, params, body) ==
    [kind |-> "FnDef", name |-> name, params |-> params, body |-> body]
FnCall(name, args) == [kind |-> "FnCall", name |-> name, args |-> args]
Binary(lhs, op, rhs) == [kind |-> "Binary", lhs |-> lhs, op |-> op, rhs |-> rhs]
Block(stmts) == [kind |-> "Block", stmts |-> stmts]
PrintExpr(expr) == [kind |-> "Print", expr |-> expr]

(***************************************************************************)
(* resource_validator.rs                                                   *)
(***************************************************************************)
CoinCost(coin_type, amt) == [coin_type |-> coin_type, amt |-> amt]

RECURSIVE calculate_costs(_)
RECURSIVE CostsOfList(_, _)

\* the `for arg in args` / `for stmt in statements` loops of calculate_costs
CostsOfList(exprs, i) ==
    IF i > Len(exprs) THEN <<>>
    ELSE calculate_costs(exprs[i]) \o CostsOfList(exprs, i + 1)

\* a tariff that also charges one Function coin for every call
calculate_costs_charging_calls(expr) ==
    CASE expr.kind \in {"Number", "Var", "String"} -> <<>>
      [] expr.kind = "FnDef" ->
            <<CoinCost("Function", 1)>> \o calculate_costs(expr.body)
      [] expr.kind = "Binary" ->
            calculate_costs(expr.lhs) \o calculate_costs(expr.rhs)
      [] expr.kind = "Let" ->
            <<CoinCost("Variable", 1)>> \o calculate_costs(expr.val)
      [] expr.kind = "FnCall" ->
            <<CoinCost("Function", 1)>> \o CostsOfList(expr.args, 1)
      [] expr.kind = "Block" -> CostsOfList(expr.stmts, 1)
      [] expr.kind = "Print" -> calculate_costs(expr.expr)

\* a walk that puts the entry of a Let or FnDef after those of its value or
\* body
calculate_costs_postorder(expr) ==
    CASE expr.kind \in {"Number", "Var", "String"} -> <<>>
      [] expr.kind = "FnDef" ->
            calculate_costs(expr.body) \o <<CoinCost("Function", 1)>>
      [] expr.kind = "Binary" ->
            calculate_costs(expr.lhs) \o calculate_costs(expr.rhs)
      [] expr.kind = "Let" ->
            calculate_costs(expr.val) \o <<CoinCost("Variable", 1)>>
      [] expr.kind = "FnCall" -> CostsOfList(expr.args, 1)
      [] expr.kind = "Block" -> CostsOfList(expr.stmts, 1)
      [] expr.kind = "Print" -> calculate_costs(expr.expr)

\* a tariff that does not look into function bodies
calculate_costs_skipping_bodies(expr) ==
    CASE expr.kind \in {"Number", "Var", "String"} -> <<>>
      [] expr.kind = "FnDef" -> <<CoinCost("Function", 1)>>
      [] expr.kind = "Binary" ->
            calculate_costs(expr.lhs) \o calculate_costs(expr.rhs)
      [] expr.kind = "Let" ->
            <<CoinCost("Variable", 1)>> \o calculate_costs(expr.val)
      [] expr.kind = "FnCall" -> CostsOfList(expr.args, 1)
      [] expr.kind = "Block" -> CostsOfList(expr.stmts, 1)
      [] expr.kind = "Print" -> calculate_costs(expr.expr)

\* ResourceValidator::calculate_costs
calculate_costs(expr) ==
    CASE expr.kind \in {"Number", "Var", "String"} -> <<>>
      [] expr.kind = "FnDef" ->
            <<CoinCost("Function", 1)>> \o calculate_costs(expr.body)
      [] expr.kind = "Binary" ->
            calculate_costs(expr.lhs) \o calculate_costs(expr.rhs)
      [] expr.kind = "Let" ->
            <<CoinCost("Variable", 1)>> \o calculate_costs(expr.val)
      [] expr.kind = "FnCall" -> CostsOfList(expr.args, 1)
      [] expr.kind = "Block" -> CostsOfList(expr.stmts, 1)
      [] expr.kind = "Print" -> calculate_costs(expr.expr)

RECURSIVE CheckCosts(_, _, _)
RECURSIVE CheckCostsCumulative(_, _, _)
RECURSIVE CheckCostsLastFailure(_, _, _, _)

\* a check that takes every entry off the balance before it checks the next
CheckCostsCumulative(costs, i, bal) ==
    IF i > Len(costs) THEN [kind |-> "ok", costs |-> costs]
    ELSE LET available == get_balance(bal, costs[i].coin_type)
         IN  IF available < costs[i].amt
             THEN [kind |-> "err",
                   err |-> InsufficientFunds(costs[i].amt, available,
                                             costs[i].coin_type)]
             ELSE LET rest == CheckCostsCumulative(costs, i + 1,
                                [bal EXCEPT ![costs[i].coin_type] =
                                    available - costs[i].amt])
                  IN  IF rest.kind = "ok" THEN [kind |-> "ok", costs |-> costs]
                      ELSE rest

\* a check that goes through all entries and reports the last failing one
CheckCostsLastFailure(costs, i, bal, found) ==
    IF i > Len(costs) THEN found
    ELSE LET available == get_balance(bal, costs[i].coin_type)
         IN  CheckCostsLastFailure(costs, i + 1, bal,
                IF available < costs[i].amt
                THEN [kind |-> "err",
                      err |-> InsufficientFunds(costs[i].amt, available,
                                                costs[i].coin_type)]
                ELSE found)

CheckCostsReportsLast(costs, i, bal) ==
    CheckCostsLastFailure(costs, i, bal, [kind |-> "ok", costs |-> costs])

\* the `for cost in &costs` loop of validate_expression
CheckCosts(costs, i, bal) ==
    IF i > Len(costs) THEN [kind |-> "ok", costs |-> costs]
    ELSE LET available == get_balance(bal, costs[i].coin_type)
         IN  IF available < costs[i].amt
             THEN [kind |-> "err",
                   err |-> InsufficientFunds(costs[i].amt, available,
                                             costs[i].coin_type)]
             ELSE CheckCosts(costs, i + 1, bal)

\* ResourceValidator::validate_expression
validate_expression(bal, expr) == CheckCosts(calculate_costs(expr), 1, bal)

\* the counts of the arity message the other way round
RuntimeErrorCountsSwapped(msg, name, n, m) ==
    [variant |-> "RuntimeError", msg |-> msg, name |-> name, n |-> m, m |-> n]

(***************************************************************************)
(* parser.rs: the evaluator                                                *)
(***************************************************************************)
\* ValidationError::RuntimeError(format!(...)): the message template, the
\* name and the two numbers put into it
RuntimeError(msg, name, n, m) ==
    [variant |-> "RuntimeError", msg |-> msg, name |-> name, n |-> n, m |-> m]

\* Result<i64, ValidationError>; "abort" is the end of the process (a panic
\* or an overflow of the native stack), which returns nothing
Ok(val) == [kind |-> "ok", val |-> val]
Err(err) == [kind |-> "err", err |-> err]
Abort == [kind |-> "abort"]

\* HashMap<String, Expr>
EmptyEnv == [name \in {} |-> Number(0)]
EnvHas(e, name) == name \in DOMAIN e
EnvInsertIfAbsent(e, name, binding) ==
    [k \in (DOMAIN e) \cup {name} |-> IF k \in DOMAIN e THEN e[k] ELSE binding]
EnvInsert(e, name, binding) ==
    [k \in (DOMAIN e) \cup {name} |-> IF k = name THEN binding ELSE e[k]]

\* i64::MAX and i64::MIN, with the 64 bits scaled to 16 so that sums and
\* products of two values stay inside the integers of TLC
I64Max == 32767
I64Min == -I64Max - 1

\* two's-complement wrap of a mathematical integer into i64
WrapI64(v) == ((v - I64Min) % (2 * (I64Max + 1))) + I64Min

\* i64 `+`, `-`, `*`: overflow panics when overflow checks are compiled in
\* (dev profile) and wraps otherwise (release profile)
ArithI64(v, prof) ==
    IF v >= I64Min /\ v <= I64Max THEN Ok(v)
    ELSE IF prof = "debug" THEN Abort ELSE Ok(WrapI64(v))

\* i64 `/` with a non-zero divisor: truncation toward zero; MIN / -1 panics
\* in every profile
DivI64(lval, rval) ==
    IF lval = I64Min /\ rval = -1 THEN Abort
    ELSE LET al == IF lval < 0 THEN -lval ELSE lval
             ar == IF rval < 0 THEN -rval ELSE rval
             q  == al \div ar
         IN  Ok(IF (lval < 0) = (rval < 0) THEN q ELSE -q)

\* the `match op` of the Binary arm of eval_with_output
BinaryOp(lval, op, rval, prof) ==
    CASE op = "Plus"  -> ArithI64(lval + rval, prof)
      [] op = "Minus" -> ArithI64(lval - rval, prof)
      [] op = "Star"  -> ArithI64(lval * rval, prof)
      [] op = "Slash" ->
            IF rval = 0 THEN Err(RuntimeError("Division by zero", "", 0, 0))
            ELSE DivI64(lval, rval)
      [] OTHER -> Err(RuntimeError("Invalid operator", "", 0, 0))

DigitChar(d) ==
    CASE d = 0 -> "0" [] d = 1 -> "1" [] d = 2 -> "2" [] d = 3 -> "3"
      [] d = 4 -> "4" [] d = 5 -> "5" [] d = 6 -> "6" [] d = 7 -> "7"
      [] d = 8 -> "8" [] d = 9 -> "9"

RECURSIVE NatToString(_)
NatToString(n) ==
    IF n < 10 THEN DigitChar(n)
    ELSE NatToString(n \div 10) \o DigitChar(n % 10)

\* a formatting that leaves the sign out
to_string_unsigned(n) == IF n < 0 THEN NatToString(-n) ELSE NatToString(n)

\* i64::to_string, as in `n.to_string()` and `val.to_string()`
to_string(n) == IF n < 0 THEN "-" \o NatToString(-n) ELSE NatToString(n)

\* what eval_with_output hands back: the Result, and the environment, the
\* output vector and the log of finished function calls as it leaves them
EvalState(res, e, out, log) == [res |-> res, env |-> e, out |-> out, log |-> log]

\* one finished function call: its callee and arguments, the caller's map
\* when the call was entered, when the body started and when the body had
\* returned, and the callee's local_env when the body started and when it
\* had returned
CallRecord(name, params, args, entry_env, caller_env, frame, frame_after, after_env, res) ==
    [name |-> name, params |-> params, args |-> args, entry_env |-> entry_env,
     caller_env |-> caller_env, frame |-> frame, frame_after |-> frame_after,
     after_env |-> after_env, res |-> res]

\* a binding that leaves a name of the caller's env as it is
BindParamKeepsCaller(local_env, param, val) ==
    IF EnvHas(local_env, param) THEN local_env
    ELSE EnvInsert(local_env, param, Number(val))

\* a binding that stores the text of the argument's value
BindParamAsText(local_env, param, val) ==
    EnvInsert(local_env, param, StringLit(to_string(val)))

\* local_env.insert(param.clone(), Expr::Number(val))
BindParam(local_env, param, val) == EnvInsert(local_env, param, Number(val))

\* a Var bound to a function reported like an unbound one
LookupVarFnAsUnbound(e, name) ==
    IF EnvHas(e, name) /\ e[name].kind = "Number" THEN Ok(e[name].n)
    ELSE Err(RuntimeError("Undefined variable", name, 0, 0))

\* the Var arm of eval_with_output: `env.get(name)` and the match on what
\* it is bound to
LookupVar(e, name) ==
    IF EnvHas(e, name)
    THEN CASE e[name].kind = "Number" -> Ok(e[name].n)
           [] e[name].kind = "FnDef" ->
                Err(RuntimeError("Cannot use function as a variable", name, 0, 0))
           [] OTHER -> Err(RuntimeError("Variable is not a number", name, 0, 0))
    ELSE Err(RuntimeError("Undefined variable", name, 0, 0))

RECURSIVE eval_with_output(_, _, _, _, _, _)
RECURSIVE EvalArgs(_, _, _, _, _, _, _, _, _)
RECURSIVE EvalBlock(_, _, _, _, _, _, _, _)
RECURSIVE EvalBlockKeepsGoing(_, _, _, _, _, _, _, _)

\* the `for (param, arg_expr) in params.iter().zip(args)` loop of the FnCall
\* arm: every argument is evaluated against the caller's env, its value is
\* inserted into local_env
EvalArgs(params, args, i, e, local_env, out, log, depth, prof) ==
    IF i > Len(params) THEN [st |-> EvalState(Ok(0), e, out, log),
                             local_env |-> local_env]
    ELSE LET a == eval_with_output(args[i], e, out, log, depth, prof)
         IN  IF a.res.kind # "ok" THEN [st |-> a, local_env |-> local_env]
             ELSE EvalArgs(params, args, i + 1, a.env,
                           BindParam(local_env, params[i], a.res.val),
                           a.out, a.log, depth, prof)

\* a statement loop that drops a statement's error and goes on
EvalBlockKeepsGoing(stmts, i, result, e, out, log, depth, prof) ==
    IF i > Len(stmts) THEN EvalState(Ok(result), e, out, log)
    ELSE LET s == eval_with_output(stmts[i], e, out, log, depth, prof)
         IN  EvalBlockKeepsGoing(stmts, i + 1,
                                 IF s.res.kind = "ok" THEN s.res.val ELSE result,
                                 s.env, s.out, s.log, depth, prof)

\* the Block arm: `for stmt in statements { result = eval_with_output(..)?; }`
EvalBlock(stmts, i, result, e, out, log, depth, prof) ==
    IF i > Len(stmts) THEN EvalState(Ok(result), e, out, log)
    ELSE LET s == eval_with_output(stmts[i], e, out, log, depth, prof)
         IN  IF s.res.kind # "ok" THEN s
             ELSE EvalBlock(stmts, i + 1, s.res.val, s.env, s.out, s.log,
                            depth, prof)

\* `eval_with_output(&body, &mut local_env, output)`: the body works on
\* local_env, which is dropped at the end of the arm; the caller's env is
\* not touched by it
CallerEnvAliased(caller_env, local_env_after) == local_env_after

CallerEnvAfterBody(caller_env, local_env_after) == caller_env

\* the FnCall arm from `let mut local_env = env.clone()` on: the clone is
\* taken first, then the arguments are evaluated, then the body runs against
\* local_env; a call nested deeper than the native stack holds ends the
\* process
CallBody(name, params, body, args, e, out, log, depth, prof) ==
    IF depth >= MaxCallDepth THEN EvalState(Abort, e, out, log)
    ELSE
    LET a == EvalArgs(params, args, 1, e, e, out, log, depth, prof)
    IN  IF a.st.res.kind # "ok" THEN a.st
        ELSE LET b == eval_with_output(body, a.local_env, a.st.out, a.st.log,
                                       depth + 1, prof)
                 after == CallerEnvAfterBody(a.st.env, b.env)
             IN  IF b.res.kind = "abort" THEN EvalState(Abort, after, b.out, b.log)
                 ELSE EvalState(b.res, after, b.out,
                        Append(b.log, CallRecord(name, params, args, e, a.st.env,
                                                 a.local_env, b.env, after,
                                                 b.res)))

\* parser.rs eval_with_output
eval_with_output(expr, e, out, log, depth, prof) ==
    CASE expr.kind = "Number" -> EvalState(Ok(expr.n), e, out, log)
      [] expr.kind = "String" -> EvalState(Ok(0), e, out, log)
      [] expr.kind = "Binary" ->
            LET l == eval_with_output(expr.lhs, e, out, log, depth, prof)
            IN  IF l.res.kind # "ok" THEN l
                ELSE LET r == eval_with_output(expr.rhs, l.env, l.out, l.log,
                                               depth, prof)
                     IN  IF r.res.kind # "ok" THEN r
                         ELSE EvalState(BinaryOp(l.res.val, expr.op, r.res.val, prof),
                                        r.env, r.out, r.log)
      [] expr.kind = "Let" ->
            LET v == eval_with_output(expr.val, e, out, log, depth, prof)
            IN  IF v.res.kind # "ok" THEN v
                ELSE EvalState(Ok(v.res.val),
                               EnvInsert(v.env, expr.name, Number(v.res.val)),
                               v.out, v.log)
      [] expr.kind = "FnDef" ->
            EvalState(Ok(0),
                      EnvInsert(e, expr.name,
                                FnDef(expr.name, expr.params, expr.body)),
                      out, log)
      [] expr.kind = "FnCall" ->
            IF EnvHas(e, expr.name) /\ e[expr.name].kind = "FnDef"
            THEN LET func == e[expr.name]
                 IN  IF Len(func.params) # Len(expr.args)
                     THEN EvalState(Err(RuntimeError("Function expects arguments",
                                        expr.name, Len(func.params), Len(expr.args))),
                                    e, out, log)
                     ELSE CallBody(expr.name, func.params, func.body, expr.args,
                                   e, out, log, depth, prof)
            ELSE EvalState(Err(RuntimeError("Undefined function", expr.name, 0, 0)),
                           e, out, log)
      [] expr.kind = "Var" -> EvalState(LookupVar(e, expr.name), e, out, log)
      [] expr.kind = "Block" -> EvalBlock(expr.stmts, 1, 0, e, out, log, depth, prof)
      [] expr.kind = "Print" ->
            LET inner == expr.expr
            IN  CASE inner.kind = "String" ->
                        EvalState(Ok(0), e, Append(out, inner.s), log)
                  [] inner.kind = "Number" ->
                        EvalState(Ok(0), e, Append(out, to_string(inner.n)), log)
                  [] inner.kind = "Var" ->
                        IF EnvHas(e, inner.name) /\ e[inner.name].kind = "Number"
                        THEN EvalState(Ok(0), e,
                                       Append(out, to_string(e[inner.name].n)), log)
                        ELSE EvalState(Err(RuntimeError("Undefined variable:",
                                                        inner.name, 0, 0)), e, out, log)
                  [] OTHER ->
                        LET v == eval_with_output(inner, e, out, log, depth, prof)
                        IN  IF v.res.kind # "ok" THEN v
                            ELSE EvalState(Ok(0), v.env,
                                           Append(v.out, to_string(v.res.val)), v.log)

(***************************************************************************)
(* parser.rs: eval_with_validation                                         *)
(***************************************************************************)
RECURSIVE SpendUnits(_, _, _)
RECURSIVE SpendCosts(_, _, _)

\* `for _ in 0..cost.amt { spend_var_coin()? }` resp. spend_func_coin
SpendUnits(coin_type, n, bal) ==
    IF n = 0 THEN LedgerResult(UnitOk, bal)
    ELSE LET r == IF coin_type = "Variable" THEN spend_var_coin(bal)
                  ELSE spend_func_coin(bal)
         IN  IF r.res.kind # "ok" THEN r
             ELSE SpendUnits(coin_type, n - 1, r.bal)

RECURSIVE SpendCostsOrRefund(_, _, _, _)
\* a spend loop that gives back what it took when an entry fails
SpendCostsOrRefund(costs, i, bal, original) ==
    IF i > Len(costs) THEN LedgerResult(UnitOk, bal) @@ [spent |-> Len(costs)]
    ELSE LET r == SpendUnits(costs[i].coin_type, costs[i].amt, bal)
         IN  IF r.res.kind # "ok"
             THEN LedgerResult(r.res, original) @@ [spent |-> i - 1]
             ELSE SpendCostsOrRefund(costs, i + 1, r.bal, original)

SpendCostsRefund(costs, i, bal) == SpendCostsOrRefund(costs, i, bal, bal)

\* `for cost in costs { match cost.coin_type { ... } }`: the entries are
\* spent in order; the first failing spend returns its error with the ledger
\* as the earlier entries left it
SpendCosts(costs, i, bal) ==
    IF i > Len(costs) THEN LedgerResult(UnitOk, bal) @@ [spent |-> Len(costs)]
    ELSE LET r == SpendUnits(costs[i].coin_type, costs[i].amt, bal)
         IN  IF r.res.kind # "ok" THEN r @@ [spent |-> i - 1]
             ELSE SpendCosts(costs, i + 1, r.bal)

\* what one call of eval_with_validation leaves behind: its Result (with the
\* output vector when Ok), the ledger, the environment, the lines handed to
\* println!, the log of function calls, the phase that ended the call and
\* the number of cost entries spent
Outcome(res, output, bal, e, printed, log, phase, costs, spent) ==
    [res |-> res, output |-> output, bal |-> bal, env |-> e,
     printed |-> printed, log |-> log, phase |-> phase, costs |-> costs,
     spent |-> spent]

\* an orchestrator that runs the evaluator although a spend failed
EvaluateAfterSpendUnchecked(expr, v, s, e, prof) ==
    LET r == eval_with_output(expr, e, <<>>, <<>>, 0, prof)
    IN  IF s.res.kind # "ok"
        THEN Outcome(Err(s.res.err), <<>>, s.bal, r.env, r.out, r.log, "spend",
                     v.costs, s.spent)
        ELSE Outcome(r.res, IF r.res.kind = "ok" THEN r.out ELSE <<>>,
                     s.bal, r.env, r.out, r.log, "evaluate", v.costs, s.spent)

\* lines 421-444 of eval_with_validation: a failed spend returns the ledger
\* error (`?`), otherwise eval_with_output runs with a fresh output vector
EvaluateAfterSpend(expr, v, s, e, prof) ==
    IF s.res.kind # "ok"
    THEN Outcome(Err(s.res.err), <<>>, s.bal, e, <<>>, <<>>, "spend",
                 v.costs, s.spent)
    ELSE LET r == eval_with_output(expr, e, <<>>, <<>>, 0, prof)
         IN  Outcome(r.res, IF r.res.kind = "ok" THEN r.out ELSE <<>>,
                     s.bal, r.env, r.out, r.log, "evaluate", v.costs, s.spent)

\* an orchestrator that gives the coins back when the evaluator fails
eval_with_validation_rollback(expr, bal, e, prof) ==
    LET v == validate_expression(bal, expr)
        r == EvaluateAfterSpend(expr, v, SpendCosts(v.costs, 1, bal), e, prof)
    IN  IF v.kind # "ok"
        THEN Outcome(Err(v.err), <<>>, bal, e, <<>>, <<>>, "validate", <<>>, 0)
        ELSE IF r.phase = "evaluate" /\ r.res.kind = "err"
        THEN [r EXCEPT !.bal = bal]
        ELSE r

\* parser.rs eval_with_validation
eval_with_validation(expr, bal, e, prof) ==
    LET v == validate_expression(bal, expr)
    IN  IF v.kind # "ok"
        THEN Outcome(Err(v.err), <<>>, bal, e, <<>>, <<>>, "validate", <<>>, 0)
        ELSE EvaluateAfterSpend(expr, v, SpendCosts(v.costs, 1, bal), e, prof)

(***************************************************************************)
(* lib.rs: tokenize.  A text is a sequence of characters, each a string of *)
(* length one.                                                             *)
(***************************************************************************)
AsciiLower ==
    {"a", "b", "c", "d", "e", "f", "g", "h", "i", "j", "k", "l", "m",
     "n", "o", "p", "q", "r", "s", "t", "u", "v", "w", "x", "y", "z"}
AsciiUpper ==
    {"A", "B", "C", "D", "E", "F", "G", "H", "I", "J", "K", "L", "M",
     "N", "O", "P", "Q", "R", "S", "T", "U", "V", "W", "X", "Y", "Z"}
AsciiDigit == {"0", "1", "2", "3", "4", "5", "6", "7", "8", "9"}

\* characters outside ASCII that char::is_alphanumeric accepts, written by
\* their code points: a letter (e acute) and a digit (Arabic-Indic three)
OtherAlphanumeric == {"U+00E9", "U+0663"}

\* the pattern 'a'..='z' | 'A'..='Z' | '_'
IsIdentStart(c) == c \in AsciiLower \cup AsciiUpper \cup {"_"}

\* char::is_alphanumeric
is_alphanumeric(c) ==
    c \in AsciiLower \cup AsciiUpper \cup AsciiDigit \cup OtherAlphanumeric

\* char::is_ascii_digit
is_ascii_digit(c) == c \in AsciiDigit

\* struct Token; value is <<>> for None and <<chars>> for Some(text)
Token(token_type, value, pos) ==
    [token_type |-> token_type, value |-> value, pos |-> pos]

\* the single-character arms of tokenize
SingleCharToken(c) ==
    CASE c = "+" -> "Plus" [] c = "-" -> "Minus" [] c = "*" -> "Star"
      [] c = "/" -> "Slash" [] c = "(" -> "LParen" [] c = ")" -> "RParen"
      [] c = "{" -> "LCurly" [] c = "}" -> "RCurly" [] c = "=" -> "Eq"
      [] c = ";" -> "Semicolon" [] c = "," -> "Comma"
      [] OTHER -> "none"

\* `match ident.as_str()`
KeywordOrIdentifier(ident) ==
    CASE ident = <<"l", "e", "t">> -> "Let"
      [] ident = <<"f", "n">> -> "Fn"
      [] ident = <<"p", "r", "i", "n", "t">> -> "Print"
      [] OTHER -> "Identifier"

RECURSIVE ScanIdent(_, _, _)
\* the inner `while let Some(&c) = chars.peek()` of the identifier arm
ScanIdent(chars, i, ident) ==
    IF i <= Len(chars) /\ (is_alphanumeric(chars[i]) \/ chars[i] = "_")
    THEN ScanIdent(chars, i + 1, Append(ident, chars[i]))
    ELSE [i |-> i, text |-> ident]

RECURSIVE ScanNumber(_, _, _)
\* the inner loop of the number arm
ScanNumber(chars, i, num) ==
    IF i <= Len(chars) /\ is_ascii_digit(chars[i])
    THEN ScanNumber(chars, i + 1, Append(num, chars[i]))
    ELSE [i |-> i, text |-> num]

\* the `match escaped` of the string arm
Unescape(escaped) ==
    CASE escaped = "n" -> <<"\n">>
      [] escaped = "t" -> <<"\t">>
      [] escaped = "r" -> <<"\r">>
      [] escaped = "\\" -> <<"\\">>
      [] escaped = "\"" -> <<"\"">>
      [] OTHER -> <<"\\", escaped>>

RECURSIVE ScanString(_, _, _)
\* the inner loop of the string arm, entered after the opening quote
ScanString(chars, i, string_val) ==
    IF i > Len(chars) THEN [i |-> i, text |-> string_val]
    ELSE IF chars[i] = "\"" THEN [i |-> i + 1, text |-> string_val]
    ELSE IF chars[i] = "\\"
         THEN IF i + 1 <= Len(chars)
              THEN ScanString(chars, i + 2, string_val \o Unescape(chars[i + 1]))
              ELSE ScanString(chars, i + 1, string_val)
    ELSE ScanString(chars, i + 1, Append(string_val, chars[i]))

RECURSIVE TokenizeFrom(_, _, _, _, _)
\* the outer `while let Some(&ch) = chars.peek()` of tokenize; every
\* character consumed on a line adds one to col
TokenizeFrom(chars, i, line, col, tokens) ==
    IF i > Len(chars) THEN tokens
    ELSE LET ch == chars[i]
         IN  CASE IsIdentStart(ch) ->
                    LET sc == ScanIdent(chars, i, <<>>)
                        c2 == col + (sc.i - i)
                    IN  TokenizeFrom(chars, sc.i, line, c2,
                            Append(tokens, Token(KeywordOrIdentifier(sc.text),
                                                 <<sc.text>>, <<line, c2>>)))
               [] is_ascii_digit(ch) ->
                    LET sc == ScanNumber(chars, i, <<>>)
                        c2 == col + (sc.i - i)
                    IN  TokenizeFrom(chars, sc.i, line, c2,
                            Append(tokens, Token("Number", <<sc.text>>, <<line, c2>>)))
               [] SingleCharToken(ch) # "none" ->
                    TokenizeFrom(chars, i + 1, line, col + 1,
                        Append(tokens, Token(SingleCharToken(ch), <<>>,
                                             <<line, col + 1>>)))
               [] ch = "\n" -> TokenizeFrom(chars, i + 1, line + 1, 0, tokens)
               [] ch = "\"" ->
                    LET sc == ScanString(chars, i + 1, <<>>)
                        c2 == col + (sc.i - i)
                    IN  TokenizeFrom(chars, sc.i, line, c2,
                            Append(tokens, Token("String", <<sc.text>>, <<line, c2>>)))
               [] OTHER -> TokenizeFrom(chars, i + 1, line, col + 1, tokens)

\* lib.rs tokenize
tokenize(input) == TokenizeFrom(input, 1, 1, 0, <<>>)

(***************************************************************************)
(* parser.rs: struct Parser                                                *)
(***************************************************************************)
\* enum ParseError; msg is the text of ExpectedToken, or the prefix and the
\* token of UnexpectedToken
ParseError(error, msg) == [variant |-> "ParseError", error |-> error, msg |-> msg]
ExpectedToken(msg) == ParseError("ExpectedToken", msg)
UnexpectedToken(prefix, tok) == ParseError("UnexpectedToken", <<prefix, tok>>)
UnexpectedEof == ParseError("UnexpectedEof", "")

\* Result<Expr, ParseError> with the parser's pos after the call; "abort" is
\* a panic inside the parser
POk(node, pos) == [kind |-> "ok", node |-> node, pos |-> pos]
PErr(err, pos) == [kind |-> "err", err |-> err, pos |-> pos]
PAbort(pos) == [kind |-> "abort", pos |-> pos]

\* Parser::peek: self.tokens.get(self.pos), <<>> for None
peek(tokens, pos) == IF pos < Len(tokens) THEN <<tokens[pos + 1]>> ELSE <<>>

\* the token_type of peek(), "None" at the end of the tokens
PeekType(tokens, pos) ==
    IF pos < Len(tokens) THEN tokens[pos + 1].token_type ELSE "None"

RECURSIVE Concat(_)
\* the characters of a String as one string
Concat(chars) ==
    IF chars = <<>> THEN "" ELSE Head(chars) \o Concat(Tail(chars))

DigitVal(c) ==
    CASE c = "0" -> 0 [] c = "1" -> 1 [] c = "2" -> 2 [] c = "3" -> 3
      [] c = "4" -> 4 [] c = "5" -> 5 [] c = "6" -> 6 [] c = "7" -> 7
      [] c = "8" -> 8 [] c = "9" -> 9

RECURSIVE ParseDigits(_, _, _)
\* str::parse::<i64> on a run of ASCII digits: Err once the value passes
\* i64::MAX
ParseDigits(text, i, acc) ==
    IF i > Len(text) THEN Ok(acc)
    ELSE LET v == acc * 10 + DigitVal(text[i])
         IN  IF v > I64Max THEN Err("PosOverflow") ELSE ParseDigits(text, i + 1, v)

parse_i64(text) == ParseDigits(text, 1, 0)

RECURSIVE parse_expr(_, _)
RECURSIVE parse_term(_, _)
RECURSIVE parse_factor(_, _)
RECURSIVE ExprLoop(_, _, _)
RECURSIVE TermLoop(_, _, _)
RECURSIVE CallArgs(_, _, _, _)

\* `let rhs = self.parse_term()?; node = Expr::Binary(node, op, rhs)` and
\* the next round of the loop of parse_expr
ExprLoopRhs(tokens, node, op, rhs) ==
    IF rhs.kind # "ok" THEN rhs
    ELSE ExprLoop(tokens, Binary(node, op, rhs.node), rhs.pos)

\* the `while let Some(tok) = self.peek()` of parse_expr
ExprLoop(tokens, node, pos) ==
    IF PeekType(tokens, pos) \in {"Plus", "Minus"}
    THEN ExprLoopRhs(tokens, node, PeekType(tokens, pos), parse_term(tokens, pos + 1))
    ELSE POk(node, pos)

\* parse_expr after `let mut node = self.parse_term()?`
ExprAfterTerm(tokens, node) ==
    IF node.kind # "ok" THEN node ELSE ExprLoop(tokens, node.node, node.pos)

\* Parser::parse_expr
parse_expr(tokens, pos) == ExprAfterTerm(tokens, parse_term(tokens, pos))

\* `let rhs = self.parse_factor()?; node = Expr::Binary(node, op, rhs)` and
\* the next round of the loop of parse_term
TermLoopRhs(tokens, node, op, rhs) ==
    IF rhs.kind # "ok" THEN rhs
    ELSE TermLoop(tokens, Binary(node, op, rhs.node), rhs.pos)

\* a term loop that also takes `+` and `-`, so that all four operators
\* share one level
TermLoopAllOps(tokens, node, pos) ==
    IF PeekType(tokens, pos) \in {"Star", "Slash", "Plus", "Minus"}
    THEN TermLoopRhs(tokens, node, PeekType(tokens, pos), parse_factor(tokens, pos + 1))
    ELSE POk(node, pos)

\* the `while let Some(tok) = self.peek()` of parse_term
TermLoop(tokens, node, pos) ==
    IF PeekType(tokens, pos) \in {"Star", "Slash"}
    THEN TermLoopRhs(tokens, node, PeekType(tokens, pos), parse_factor(tokens, pos + 1))
    ELSE POk(node, pos)

\* parse_term after `let mut node = self.parse_factor()?`
TermAfterFactor(tokens, node) ==
    IF node.kind # "ok" THEN node ELSE TermLoop(tokens, node.node, node.pos)

\* Parser::parse_term
parse_term(tokens, pos) == TermAfterFactor(tokens, parse_factor(tokens, pos))

\* the argument loop after `args.push(self.parse_expr()?)`: `,` is eaten
\* and the loop goes on, `)` and the end of the tokens go on without eating,
\* any other token is an error
CallArgsNext(tokens, name, args, a) ==
    IF a.kind # "ok" THEN a
    ELSE IF PeekType(tokens, a.pos) \in {"Comma", "RParen", "None"}
    THEN CallArgs(tokens,
                  IF PeekType(tokens, a.pos) = "Comma" THEN a.pos + 1 ELSE a.pos,
                  name, Append(args, a.node))
    ELSE PErr(ExpectedToken("',' or ')' after function argument"), a.pos)

\* the argument loop of parse_factor, entered after the `(` was eaten: the
\* loop ends at `)` and also when the tokens end
CallArgs(tokens, pos, name, args) ==
    IF PeekType(tokens, pos) = "None" THEN POk(FnCall(name, args), pos)
    ELSE IF PeekType(tokens, pos) = "RParen" THEN POk(FnCall(name, args), pos + 1)
    ELSE CallArgsNext(tokens, name, args, parse_expr(tokens, pos))

\* the LParen arm of parse_factor after `let expr = self.parse_expr()?`
ParenClose(tokens, expr) ==
    IF expr.kind # "ok" THEN expr
    ELSE IF PeekType(tokens, expr.pos) # "RParen"
    THEN PErr(ExpectedToken("closing parenthesis"), expr.pos + 1)
    ELSE POk(expr.node, expr.pos + 1)

\* the Number arm of parse_factor: `parse::<i64>().unwrap()`
NumberOf(n, pos) == IF n.kind = "ok" THEN POk(Number(n.val), pos) ELSE PAbort(pos)

\* Parser::parse_factor
parse_factor(tokens, pos) ==
    CASE PeekType(tokens, pos) = "None" -> PErr(UnexpectedEof, pos + 1)
      [] PeekType(tokens, pos) = "Number" ->
            NumberOf(parse_i64(tokens[pos + 1].value[1]), pos + 1)
      [] PeekType(tokens, pos) = "String" ->
            POk(StringLit(Concat(tokens[pos + 1].value[1])), pos + 1)
      [] PeekType(tokens, pos) = "Identifier" ->
            IF PeekType(tokens, pos + 1) = "LParen"
            THEN CallArgs(tokens, pos + 2, Concat(tokens[pos + 1].value[1]), <<>>)
            ELSE POk(Var(Concat(tokens[pos + 1].value[1])), pos + 1)
      [] PeekType(tokens, pos) = "LParen" ->
            ParenClose(tokens, parse_expr(tokens, pos + 1))
      [] OTHER -> PErr(UnexpectedToken("", tokens[pos + 1]), pos + 1)

RECURSIVE ParamList(_, _, _)
\* the parameter loop of parse_fn_def
ParamList(tokens, pos, params) ==
    CASE PeekType(tokens, pos) = "None" -> [kind |-> "ok", params |-> params, pos |-> pos]
      [] PeekType(tokens, pos) = "Identifier" ->
            IF PeekType(tokens, pos + 1) \in {"Comma", "RParen", "None"}
            THEN ParamList(tokens,
                           IF PeekType(tokens, pos + 1) = "Comma" THEN pos + 2
                           ELSE pos + 1,
                           Append(params, Concat(tokens[pos + 1].value[1])))
            ELSE PErr(ExpectedToken("',' or ')' after parameter"), pos + 1)
      [] PeekType(tokens, pos) = "RParen" ->
            [kind |-> "ok", params |-> params, pos |-> pos + 1]
      [] OTHER -> PErr(UnexpectedToken("in parameter list: ", tokens[pos + 1]), pos)

\* parse_fn_def after `let body = self.parse_expr()?`: the `}`
FnDefClose(tokens, name, params, body) ==
    IF body.kind # "ok" THEN body
    ELSE IF PeekType(tokens, body.pos) # "RCurly"
    THEN PErr(ExpectedToken("'}' at end of function body"), body.pos + 1)
    ELSE POk(FnDef(name, params, body.node), body.pos + 1)

RECURSIVE parse_stmt(_, _)

\* `{`, then the body read by parse_stmt instead of parse_expr
FnDefBodyAsStmt(tokens, name, ps) ==
    IF ps.kind # "ok" THEN ps
    ELSE IF PeekType(tokens, ps.pos) # "LCurly"
    THEN PErr(ExpectedToken("'{' before function body"), ps.pos + 1)
    ELSE FnDefClose(tokens, name, ps.params, parse_stmt(tokens, ps.pos + 1))

\* parse_fn_def from the end of the parameters on: `{`, then the body, which
\* is one parse_expr
FnDefBody(tokens, name, ps) ==
    IF ps.kind # "ok" THEN ps
    ELSE IF PeekType(tokens, ps.pos) # "LCurly"
    THEN PErr(ExpectedToken("'{' before function body"), ps.pos + 1)
    ELSE FnDefClose(tokens, name, ps.params, parse_expr(tokens, ps.pos + 1))

\* Parser::parse_fn_def
parse_fn_def(tokens, pos) ==
    IF PeekType(tokens, pos + 1) # "Identifier"
    THEN PErr(ExpectedToken("identifier after 'fn'"), pos + 2)
    ELSE IF PeekType(tokens, pos + 2) # "LParen"
    THEN PErr(ExpectedToken("'(' after function name"), pos + 3)
    ELSE FnDefBody(tokens, Concat(tokens[pos + 2].value[1]),
                   ParamList(tokens, pos + 3, <<>>))

\* parse_let after `let expr = self.parse_expr()?`
LetOf(ident, expr) ==
    IF expr.kind # "ok" THEN expr ELSE POk(Let(ident, expr.node), expr.pos)

\* Parser::parse_let
parse_let(tokens, pos) ==
    IF PeekType(tokens, pos + 1) # "Identifier"
    THEN PErr(ExpectedToken("identifier after 'let'"), pos + 2)
    ELSE IF PeekType(tokens, pos + 2) # "Eq"
    THEN PErr(ExpectedToken("'=' after identifier in let"), pos + 3)
    ELSE LetOf(Concat(tokens[pos + 2].value[1]), parse_expr(tokens, pos + 3))

\* parse_print after `let expr = self.parse_expr()?`: the `)`
PrintClose(tokens, expr) ==
    IF expr.kind # "ok" THEN expr
    ELSE IF PeekType(tokens, expr.pos) # "RParen"
    THEN PErr(ExpectedToken("')' after print expression"), expr.pos + 1)
    ELSE POk(PrintExpr(expr.node), expr.pos + 1)

\* Parser::parse_print
parse_print(tokens, pos) ==
    IF PeekType(tokens, pos + 1) # "LParen"
    THEN PErr(ExpectedToken("'(' after 'print'"), pos + 2)
    ELSE PrintClose(tokens, parse_expr(tokens, pos + 2))

\* Parser::parse_stmt
parse_stmt(tokens, pos) ==
    CASE PeekType(tokens, pos) = "Let" -> parse_let(tokens, pos)
      [] PeekType(tokens, pos) = "Fn" -> parse_fn_def(tokens, pos)
      [] PeekType(tokens, pos) = "Print" -> parse_print(tokens, pos)
      [] OTHER -> parse_expr(tokens, pos)

RECURSIVE StmtLoop(_, _, _)

\* a loop that rejects a statement followed by a token other than `;`
StmtLoopNextStrict(tokens, statements, st) ==
    IF st.kind # "ok" THEN st
    ELSE IF PeekType(tokens, st.pos) = "Semicolon"
    THEN StmtLoop(tokens, st.pos + 1, Append(statements, st.node))
    ELSE IF PeekType(tokens, st.pos) = "None"
    THEN [kind |-> "ok", statements |-> Append(statements, st.node), pos |-> st.pos]
    ELSE PErr(ExpectedToken("';' between statements"), st.pos)

\* the loop of parse_program after `statements.push(self.parse_stmt()?)`: a
\* `;` is eaten and the loop goes on, any other token ends the loop
StmtLoopNext(tokens, statements, st) ==
    IF st.kind # "ok" THEN st
    ELSE IF PeekType(tokens, st.pos) = "Semicolon"
    THEN StmtLoop(tokens, st.pos + 1, Append(statements, st.node))
    ELSE [kind |-> "ok", statements |-> Append(statements, st.node), pos |-> st.pos]

\* the `while self.pos < self.tokens.len()` of parse_program
StmtLoop(tokens, pos, statements) ==
    IF pos >= Len(tokens) THEN [kind |-> "ok", statements |-> statements, pos |-> pos]
    ELSE StmtLoopNext(tokens, statements, parse_stmt(tokens, pos))

\* the end of parse_program: one statement is returned as it is, any other
\* number of statements as a Block
ProgramOf(l) ==
    IF l.kind # "ok" THEN l
    ELSE IF Len(l.statements) = 1 THEN POk(l.statements[1], l.pos)
    ELSE POk(Block(l.statements), l.pos)

\* Parser::parse_program, on Parser::new(tokens)
parse_program(tokens) == ProgramOf(StmtLoop(tokens, 0, <<>>))

(***************************************************************************)
(* quest_system.rs.  A quest keeps the fields the manager reads: id,       *)
(* objectives, rewards, completed, prerequisites and unlocked; title,      *)
(* description and difficulty are only displayed.  A recorded expression   *)
(* is a text, a sequence of characters.                                    *)
(***************************************************************************)
\* struct CoinReward
CoinReward(coin_type, amount) == [coin_type |-> coin_type, amount |-> amount]

\* enum QuestObjective; an Option is <<>> for None and <<v>> for Some(v)
ExecuteProgram(pattern) == [kind |-> "ExecuteProgram", pattern |-> pattern]
DefineFunction(min_params) == [kind |-> "DefineFunction", min_params |-> min_params]
UseVariables(count) == [kind |-> "UseVariables", count |-> count]
ProduceOutput(expected) == [kind |-> "ProduceOutput", expected |-> expected]
CreateVariable(name) == [kind |-> "CreateVariable", name |-> name]
CallFunction(name) == [kind |-> "CallFunction", name |-> name]
PerformArithmetic == [kind |-> "PerformArithmetic"]

\* Quest::new: no prerequisites, unlocked
Quest_new(id, objectives, rewards) ==
    [id |-> id, objectives |-> objectives, rewards |-> rewards,
     completed |-> FALSE, prerequisites |-> <<>>, unlocked |-> TRUE]

\* Quest::new_with_difficulty: `let unlocked = prerequisites.is_empty()`
new_with_difficulty(id, objectives, rewards, prerequisites) ==
    [id |-> id, objectives |-> objectives, rewards |-> rewards,
     completed |-> FALSE, prerequisites |-> prerequisites,
     unlocked |-> (prerequisites = <<>>)]

\* Quest::is_completed
is_completed(quest) == quest.completed

\* Quest::is_unlocked
is_unlocked(quest) == quest.unlocked

\* Quest::mark_completed
mark_completed(quest) == [quest EXCEPT !.completed = TRUE]

\* Quest::unlock
unlock(quest) == [quest EXCEPT !.unlocked = TRUE]

\* ExecutionContext::new
ExecutionContext_new ==
    [variables |-> <<>>, functions |-> <<>>, output |-> <<>>,
     executed_expressions |-> <<>>]

\* HashMap::insert on a map kept as a function from its keys
MapInsert(map, key, value) ==
    [k \in DOMAIN map \cup {key} |-> IF k = key THEN value ELSE map[k]]

\* ExecutionContext::add_variable
add_variable(context, name, value) ==
    [context EXCEPT !.variables = MapInsert(@, name, value)]

\* ExecutionContext::add_function
add_function(context, name, params, body) ==
    [context EXCEPT !.functions =
        MapInsert(@, name, [name |-> name, params |-> params, body |-> body])]

\* ExecutionContext::add_output
add_output(context, output) ==
    [context EXCEPT !.output = Append(@, output)]

\* ExecutionContext::record_expression
record_expression(context, expr_type) ==
    [context EXCEPT !.executed_expressions = Append(@, expr_type)]

\* str::contains on texts
contains(text, pattern) ==
    \E i \in 0..(Len(text) - Len(pattern)) :
        SubSeq(text, i + 1, i + Len(pattern)) = pattern

TextFnCall == <<"F", "n", "C", "a", "l", "l">>
TextBinary == <<"B", "i", "n", "a", "r", "y">>
TextArithmetic == <<"a", "r", "i", "t", "h", "m", "e", "t", "i", "c">>

\* QuestManager::new
QuestManager_new == [active_quests |-> <<>>, completed_quests |-> <<>>]

\* QuestManager::has_quest
has_quest(manager, quest_id) ==
    \/ \E i \in 1..Len(manager.active_quests) :
            manager.active_quests[i].id = quest_id
    \/ \E i \in 1..Len(manager.completed_quests) :
            manager.completed_quests[i].id = quest_id

\* QuestManager::add_quest
add_quest(manager, quest) ==
    IF ~has_quest(manager, quest.id)
    THEN [manager EXCEPT !.active_quests = Append(@, quest)]
    ELSE manager

\* QuestManager::get_available_quests
get_available_quests(manager) ==
    SelectSeq(manager.active_quests,
              LAMBDA q : is_unlocked(q) /\ ~is_completed(q))

\* QuestManager::get_locked_quests
get_locked_quests(manager) ==
    SelectSeq(manager.active_quests, LAMBDA q : ~is_unlocked(q))

\* `quest.prerequisites.iter().all(|prereq_id| self.completed_quests.iter()
\* .any(|completed| completed.id == *prereq_id))`
all_prerequisites_met(manager, quest) ==
    \A p \in 1..Len(quest.prerequisites) :
        \E c \in 1..Len(manager.completed_quests) :
            manager.completed_quests[c].id = quest.prerequisites[p]

\* QuestManager::unlock_dependent_quests
unlock_dependent_quests(manager, completed_quest_id) ==
    [manager EXCEPT !.active_quests =
        [index \in 1..Len(manager.active_quests) |->
            LET quest == manager.active_quests[index]
            IN  IF /\ ~is_unlocked(quest)
                   /\ \E p \in 1..Len(quest.prerequisites) :
                            quest.prerequisites[p] = completed_quest_id
                   /\ all_prerequisites_met(manager, quest)
                THEN unlock(quest)
                ELSE quest]]

\* QuestManager::check_objective_static
check_objective_static(objective, context) ==
    CASE objective.kind = "ExecuteProgram" ->
            \E i \in 1..Len(context.executed_expressions) :
                contains(context.executed_expressions[i], objective.pattern)
      [] objective.kind = "DefineFunction" ->
            \E f \in DOMAIN context.functions :
                Len(context.functions[f].params) >= objective.min_params
      [] objective.kind = "UseVariables" ->
            Cardinality(DOMAIN context.variables) >= objective.count
      [] objective.kind = "ProduceOutput" ->
            \E i \in 1..Len(context.output) : context.output[i] = objective.expected
      [] objective.kind = "CreateVariable" ->
            IF objective.name # <<>>
            THEN objective.name[1] \in DOMAIN context.variables
            ELSE DOMAIN context.variables # {}
      [] objective.kind = "CallFunction" ->
            IF objective.name # <<>>
            THEN \E i \in 1..Len(context.executed_expressions) :
                    /\ contains(context.executed_expressions[i], TextFnCall)
                    /\ contains(context.executed_expressions[i], objective.name[1])
            ELSE \E i \in 1..Len(context.executed_expressions) :
                    contains(context.executed_expressions[i], TextFnCall)
      [] objective.kind = "PerformArithmetic" ->
            \E i \in 1..Len(context.executed_expressions) :
                \/ contains(context.executed_expressions[i], TextBinary)
                \/ contains(context.executed_expressions[i], TextArithmetic)

\* `quest.objectives.iter().all(|objective| check_objective_static(..))`
all_objectives_met(quest, context) ==
    \A o \in 1..Len(quest.objectives) :
        check_objective_static(quest.objectives[o], context)

RECURSIVE CollectCompleted(_, _, _, _, _)
\* the first loop of check_completion: the rewards and the indices of the
\* active quests that are not completed and have every objective met
CollectCompleted(manager, context, index, rewards, completed_quest_indices) ==
    IF index > Len(manager.active_quests)
    THEN [rewards |-> rewards, completed_quest_indices |-> completed_quest_indices]
    ELSE LET quest == manager.active_quests[index]
         IN  IF ~quest.completed /\ all_objectives_met(quest, context)
             THEN CollectCompleted(manager, context, index + 1,
                                   rewards \o quest.rewards,
                                   Append(completed_quest_indices, index))
             ELSE CollectCompleted(manager, context, index + 1, rewards,
                                   completed_quest_indices)

\* Vec::remove
Remove(list, index) ==
    SubSeq(list, 1, index - 1) \o SubSeq(list, index + 1, Len(list))

\* the body of the second loop of check_completion for one index
CompleteAt(manager, index) ==
    LET completed_quest == mark_completed(manager.active_quests[index])
    IN  unlock_dependent_quests(
            [active_quests |-> Remove(manager.active_quests, index),
             completed_quests |-> Append(manager.completed_quests, completed_quest)],
            completed_quest.id)

RECURSIVE MoveCompletedForward(_, _, _)
\* a second loop that takes the indices in ascending order
MoveCompletedForward(manager, completed_quest_indices, k) ==
    IF k = 0 THEN manager
    ELSE LET index == completed_quest_indices[Len(completed_quest_indices) - k + 1]
         IN  IF index > Len(manager.active_quests)
             THEN MoveCompletedForward(manager, completed_quest_indices, k - 1)
             ELSE MoveCompletedForward(CompleteAt(manager, index),
                                       completed_quest_indices, k - 1)

RECURSIVE MoveCompleted(_, _, _)
\* `for &index in completed_quest_indices.iter().rev()`: k is the position
\* of the index taken next
MoveCompleted(manager, completed_quest_indices, k) ==
    IF k = 0 THEN manager
    ELSE MoveCompleted(CompleteAt(manager, completed_quest_indices[k]),
                       completed_quest_indices, k - 1)

\* QuestManager::check_completion: the manager it leaves and the rewards it
\* returns
check_completion(manager, context) ==
    LET c == CollectCompleted(manager, context, 1, <<>>, <<>>)
    IN  [manager |-> MoveCompleted(manager, c.completed_quest_indices,
                                   Len(c.completed_quest_indices)),
         rewards |-> c.rewards]

RECURSIVE AddQuests(_, _, _)
\* the nine add_quest calls of initialize_starter_quests
AddQuests(manager, quests, i) ==
    IF i > Len(quests) THEN manager
    ELSE AddQuests(add_quest(manager, quests[i]), quests, i + 1)

\* the quests initialize_starter_quests builds, in the order it adds them
StarterQuests ==
    << new_with_difficulty("hello_world", <<PerformArithmetic>>,
            <<CoinReward("Variable", 2)>>, <<>>),
       new_with_difficulty("print_hello", <<ProduceOutput("Hello World")>>,
            <<CoinReward("Variable", 1)>>, <<"hello_world">>),
       new_with_difficulty("first_variable", <<CreateVariable(<<>>)>>,
            <<CoinReward("Variable", 3)>>, <<"hello_world">>),
       new_with_difficulty("variable_arithmetic",
            <<CreateVariable(<<>>), PerformArithmetic>>,
            <<CoinReward("Variable", 2)>>, <<"first_variable">>),
       new_with_difficulty("first_function", <<DefineFunction(0)>>,
            <<CoinReward("Function", 2)>>, <<"variable_arithmetic">>),
       new_with_difficulty("function_with_params", <<DefineFunction(1)>>,
            <<CoinReward("Function", 1)>>, <<"first_function">>),
       new_with_difficulty("multiple_variables", <<UseVariables(3)>>,
            <<CoinReward("Variable", 4)>>, <<"variable_arithmetic">>),
       new_with_difficulty("function_caller",
            <<DefineFunction(1), CallFunction(<<>>)>>,
            <<CoinReward("Function", 2), CoinReward("Variable", 2)>>,
            <<"function_with_params">>),
       new_with_difficulty("complex_program",
            <<UseVariables(2), DefineFunction(1), PerformArithmetic>>,
            <<CoinReward("Variable", 5), CoinReward("Function", 3)>>,
            <<"multiple_variables", "function_caller">>) >>

\* QuestManager::initialize_starter_quests
initialize_starter_quests(manager) == AddQuests(manager, StarterQuests, 1)

(***************************************************************************)
(* Inputs of the model                                                     *)
(***************************************************************************)
OnePlus(e) == Binary(e, "Plus", Number(1))
DivByZero == Binary(Number(1), "Slash", Number(0))

\* fn f(a) { a }
FnIdentity == FnDef("f", <<"a">>, Var("a"))
\* f with the body `let b = a + 1; b` as a Block
FnLetInBody ==
    FnDef("f", <<"a">>, Block(<<Let("b", OnePlus(Var("a"))), Var("b")>>))
\* fn f(a) { f(a) }
FnSelfCall == FnDef("f", <<"a">>, FnCall("f", <<Var("a")>>))
\* fn g() { x }
FnReadsX == FnDef("g", <<>>, Var("x"))
\* g(x, b): rebinds its parameter x, then calls f
FnRebindsParam ==
    FnDef("g", <<"x", "b">>,
          Block(<<Let("x", Binary(Var("x"), "Minus", Var("b"))),
                  FnCall("f", <<Var("x")>>)>>))

TwoLets == Block(<<Let("x", Number(3)), Let("b", Number(2))>>)
FnThenLet == Block(<<FnReadsX, Let("x", Number(3))>>)
LetThenFn == Block(<<Let("x", Number(3)), FnReadsX>>)
LetDivLet == Block(<<Let("x", Number(3)), DivByZero, Let("b", Number(2))>>)
LetDivByZero == Let("x", DivByZero)
CallWithLetArg == FnCall("f", <<Let("x", Number(2))>>)
CallTwoArgs == FnCall("g", <<Let("x", Number(1)), OnePlus(Var("x"))>>)
\* fn x() { 0 }
FnNamedX == FnDef("x", <<>>, Number(0))
\* a print whose inner expression prints a line of its own
PrintNested == PrintExpr(Block(<<PrintExpr(Number(1)), Number(2)>>))
\* a print whose inner expression prints a line and then fails
PrintFailing == PrintExpr(Block(<<PrintExpr(Number(1)), DivByZero>>))
\* a block that prints, binds x and ends with x + 1
BlockValue ==
    Block(<<PrintExpr(Number(1)), Let("x", Number(5)), OnePlus(Var("x"))>>)
\* a block whose third statement fails
BlockFailsMidway ==
    Block(<<PrintExpr(Number(1)), Let("x", Number(3)), DivByZero,
            PrintExpr(Number(2)), Let("b", Number(2))>>)

\* the texts handed to the session's execute
\* `fn f(a) { let b = a + 1; b }`
SrcFnLetInBody ==
    <<"f", "n", " ", "f", "(", "a", ")", " ", "{", " ", "l", "e", "t", " ",
      "b", " ", "=", " ", "a", " ", "+", " ", "1", ";", " ", "b", " ", "}">>
\* `f(10)`
SrcCallF10 ==
    <<"f", "(", "1", "0", ")">>
\* `b`
SrcVarB ==
    <<"b">>
\* `fn f(a){a}`
SrcFnIdentity ==
    <<"f", "n", " ", "f", "(", "a", ")", "{", "a", "}">>
\* `let x = 3; let b = 2`
SrcTwoLets ==
    <<"l", "e", "t", " ", "x", " ", "=", " ", "3", ";", " ", "l", "e", "t",
      " ", "b", " ", "=", " ", "2">>
\* `let x = 1 / 0`
SrcLetDivByZero ==
    <<"l", "e", "t", " ", "x", " ", "=", " ", "1", " ", "/", " ", "0">>
\* `1 / 0`
SrcDivByZero ==
    <<"1", " ", "/", " ", "0">>
\* `fn g() { x }`
SrcFnReadsX ==
    <<"f", "n", " ", "g", "(", ")", " ", "{", " ", "x", " ", "}">>
\* `let x = 3`
SrcLetX3 ==
    <<"l", "e", "t", " ", "x", " ", "=", " ", "3">>
\* `g()`
SrcCallG ==
    <<"g", "(", ")">>
\* ` `
SrcBlank ==
    <<" ">>

\* the texts handed to the parser alone
\* `1 2`
SrcTwoNumbers ==
    <<"1", " ", "2">>
\* `1; 2`
SrcTwoStatements ==
    <<"1", ";", " ", "2">>
\* `1;`
SrcTrailingSemicolon ==
    <<"1", ";">>
\* `let x = 3 let b = 2`
SrcTwoLetsNoSemicolon ==
    <<"l", "e", "t", " ", "x", " ", "=", " ", "3", " ", "l", "e", "t", " ",
      "b", " ", "=", " ", "2">>
\* `1; 2 3; 4`
SrcFourNumbers ==
    <<"1", ";", " ", "2", " ", "3", ";", " ", "4">>
\* `1 )`
SrcNumberRParen ==
    <<"1", " ", ")">>
\* `1;; 2`
SrcTwoSemicolons ==
    <<"1", ";", ";", " ", "2">>
\* `let x = 3; x; print(x)`
SrcThreeStatements ==
    <<"l", "e", "t", " ", "x", " ", "=", " ", "3", ";", " ", "x", ";", " ",
      "p", "r", "i", "n", "t", "(", "x", ")">>
\* `f(1,)`
SrcCallTrailingComma ==
    <<"f", "(", "1", ",", ")">>
\* `f(1`
SrcCallUnclosed ==
    <<"f", "(", "1">>
\* `f(`
SrcCallOpenOnly ==
    <<"f", "(">>
\* `f(1, 2)`
SrcCallTwoArgs ==
    <<"f", "(", "1", ",", " ", "2", ")">>
\* `f()`
SrcCallNoArgs ==
    <<"f", "(", ")">>
\* `f(1 2)`
SrcCallNoComma ==
    <<"f", "(", "1", " ", "2", ")">>
\* `f(,1)`
SrcCallLeadingComma ==
    <<"f", "(", ",", "1", ")">>
\* `f(g(1), 2)`
SrcCallNested ==
    <<"f", "(", "g", "(", "1", ")", ",", " ", "2", ")">>
\* `fn f(a,){a}`
SrcFnTrailingComma ==
    <<"f", "n", " ", "f", "(", "a", ",", ")", "{", "a", "}">>
\* `fn f(a, b){a}`
SrcFnTwoParams ==
    <<"f", "n", " ", "f", "(", "a", ",", " ", "b", ")", "{", "a", "}">>
\* `fn f(a b){a}`
SrcFnNoComma ==
    <<"f", "n", " ", "f", "(", "a", " ", "b", ")", "{", "a", "}">>
\* `fn f(a`
SrcFnUnclosed ==
    <<"f", "n", " ", "f", "(", "a">>
\* `fn f(1){a}`
SrcFnNumberParam ==
    <<"f", "n", " ", "f", "(", "1", ")", "{", "a", "}">>
\* `32768`, which stands for 9223372036854775808 (i64::MAX + 1)
SrcNumberTooLarge ==
    <<"3", "2", "7", "6", "8">>
\* `32767`, which stands for 9223372036854775807 (i64::MAX)
SrcNumberLargest ==
    <<"3", "2", "7", "6", "7">>
\* `+`
SrcOperatorOnly ==
    <<"+">>
\* `(1`
SrcParenUnclosed ==
    <<"(", "1">>
\* `let = 3`
SrcLetNoName ==
    <<"l", "e", "t", " ", "=", " ", "3">>
\* `2 + 3 * 4`
SrcSpacedPrecedence ==
    <<"2", " ", "+", " ", "3", " ", "*", " ", "4">>
\* `((2 + 3)) * 4`
SrcNestedParens ==
    <<"(", "(", "2", " ", "+", " ", "3", ")", ")", " ", "*", " ", "4">>
\* `8 - 3 - 2`
SrcLeftAssoc ==
    <<"8", " ", "-", " ", "3", " ", "-", " ", "2">>

\* `letx + let_ + _9`
SrcLetx ==
    <<"l", "e", "t", "x", " ", "+", " ", "l", "e", "t", "_", " ", "+", " ", "_", "9">>
\* `caf` followed by e acute, then ` + 1`
SrcNonAsciiLetter ==
    <<"c", "a", "f", "U+00E9", " ", "+", " ", "1">>
\* `x` followed by the Arabic-Indic digit three
SrcNonAsciiDigit ==
    <<"x", "U+0663">>
\* e acute followed by `x`
SrcLeadingNonAscii ==
    <<"U+00E9", "x">>

ParseSources ==
    { SrcTwoNumbers,
      SrcTwoStatements,
      SrcTrailingSemicolon,
      SrcTwoLetsNoSemicolon,
      SrcFourNumbers,
      SrcNumberRParen,
      SrcTwoSemicolons,
      SrcThreeStatements,
      SrcCallTrailingComma,
      SrcCallUnclosed,
      SrcCallOpenOnly,
      SrcCallTwoArgs,
      SrcCallNoArgs,
      SrcCallNoComma,
      SrcCallLeadingComma,
      SrcCallNested,
      SrcFnTrailingComma,
      SrcFnTwoParams,
      SrcFnNoComma,
      SrcFnUnclosed,
      SrcFnNumberParam,
      SrcNumberTooLarge,
      SrcNumberLargest,
      SrcOperatorOnly,
      SrcParenUnclosed,
      SrcLetNoName,
      SrcLetx,
      SrcNonAsciiLetter,
      SrcNonAsciiDigit,
      SrcLeadingNonAscii }

\* operands of the arithmetic texts
ArithTriples == {<<"2", "3", "4">>, <<"8", "3", "2">>, <<"8", "4", "2">>, <<"7", "2", "0">>}

OpChars == {"+", "-", "*", "/"}

\* `a o b o c`, `(a o b) o c`, `a o (b o c)` for every pair of operators,
\* `8 o 4 o 3 o 2` for every three operators, and three texts with blanks
ArithSources ==
    {<<t[1], o1, t[2], o2, t[3]>> : t \in ArithTriples, o1 \in OpChars, o2 \in OpChars}
    \cup {<<"(", t[1], o1, t[2], ")", o2, t[3]>> :
                t \in ArithTriples, o1 \in OpChars, o2 \in OpChars}
    \cup {<<t[1], o1, "(", t[2], o2, t[3], ")">> :
                t \in ArithTriples, o1 \in OpChars, o2 \in OpChars}
    \cup {<<"8", o1, "4", o2, "3", o3, "2">> :
                o1 \in OpChars, o2 \in OpChars, o3 \in OpChars}
    \cup {SrcSpacedPrecedence, SrcNestedParens, SrcLeftAssoc}

Sources ==
    { SrcFnLetInBody, SrcCallF10, SrcVarB, SrcFnIdentity, SrcTwoLets, SrcLetDivByZero,
      SrcDivByZero, SrcFnReadsX, SrcLetX3, SrcCallG, SrcBlank }

\* the ASTs handed to eval_with_validation directly
Programs ==
    { Number(1), Var("x"), OnePlus(Var("x")), FnThenLet, LetThenFn, LetDivLet,
      FnLetInBody, PrintExpr(Var("x")), PrintExpr(StringLit("hi")) }

\* the ASTs handed to eval directly
EvalPrograms ==
    { Var("x"), Var("b"), Let("x", Number(3)), Let("x", Number(5)),
      OnePlus(Var("x")), Let("f", Number(5)), FnNamedX, LetDivByZero,
      FnIdentity, FnLetInBody, FnSelfCall, FnReadsX, FnRebindsParam,
      FnCall("f", <<Number(10)>>), FnCall("f", <<>>), FnCall("g", <<>>),
      CallWithLetArg, CallTwoArgs, PrintExpr(FnCall("g", <<>>)),
      PrintExpr(StringLit("hi")), PrintExpr(Number(-7)), PrintExpr(Var("x")),
      PrintExpr(OnePlus(Var("x"))), PrintNested, PrintFailing,
      Block(<<>>), BlockValue, BlockFailsMidway }

(***************************************************************************)
(* The session: one ledger, one environment                                *)
(***************************************************************************)
Profiles == {"debug", "release"}

\* every number bound in an environment is within the bound of the model
BoundedEnv(e) ==
    \A name \in DOMAIN e :
        e[name].kind = "Number" => (e[name].n >= -MaxVal /\ e[name].n <= MaxVal)

Init ==
    /\ \E variable_coins \in 0..MaxBalance, function_coins \in 0..MaxBalance :
            balances = with_balances(variable_coins, function_coins)
    /\ env = EmptyEnv
    /\ last = [op |-> "new"]
    /\ calls = <<>>
    /\ alive = TRUE
    /\ profile \in Profiles
    /\ quest_manager = QuestManager_new
    /\ execution_context = ExecutionContext_new

\* a call of eval_with_validation on the session's validator and env
EvalWithValidation(expr) ==
    /\ alive
    /\ LET r == eval_with_validation(expr, balances, env, profile)
       IN  /\ BoundedEnv(r.env)
           /\ balances' = r.bal
           /\ env' = r.env
           /\ calls' = r.log
           /\ alive' = (r.res.kind # "abort")
           /\ last' = [op |-> "eval_with_validation", expr |-> expr,
                       res |-> r.res, output |-> r.output, printed |-> r.printed,
                       phase |-> r.phase, costs |-> r.costs, spent |-> r.spent]
    /\ UNCHANGED <<profile, quest_manager, execution_context>>

\* lines 71-85 of Repl::execute for every text of Sources: the tokens and
\* the Result of parse_program on them
FrontEnd ==
    [input \in Sources \cup ParseSources \cup ArithSources |->
        LET tokens == tokenize(input)
        IN  [tokens |-> tokens, ast |-> parse_program(tokens)]]

\* Repl::execute on the session's validator and env: tokenize,
\* parse_program, eval_with_validation, with a quest manager that holds no
\* quests; the tracking of expressions and quests is in ReplExecute
Execute(input) ==
    /\ alive
    /\ LET tokens == FrontEnd[input].tokens
           ast == FrontEnd[input].ast
       IN  IF tokens = <<>>
           THEN /\ last' = [op |-> "execute", input |-> input, phase |-> "tokenize"]
                /\ calls' = <<>>
                /\ UNCHANGED <<balances, env, alive>>
           ELSE IF ast.kind # "ok"
           THEN /\ last' = [op |-> "execute", input |-> input, phase |-> "parse",
                            res |-> IF ast.kind = "err" THEN Err(ast.err) ELSE Abort]
                /\ calls' = <<>>
                /\ alive' = (ast.kind # "abort")
                /\ UNCHANGED <<balances, env>>
           ELSE LET r == eval_with_validation(ast.node, balances, env, profile)
                IN  /\ BoundedEnv(r.env)
                    /\ balances' = r.bal
                    /\ env' = r.env
                    /\ calls' = r.log
                    /\ alive' = (r.res.kind # "abort")
                    /\ last' = [op |-> "execute", input |-> input,
                                expr |-> ast.node, res |-> r.res,
                                output |-> r.output, printed |-> r.printed,
                                phase |-> r.phase, costs |-> r.costs,
                                spent |-> r.spent]
    /\ UNCHANGED <<profile, quest_manager, execution_context>>

\* coin_manager_mut().spend_var_coin()
SpendVarCoin ==
    /\ alive
    /\ LET r == spend_var_coin(balances)
       IN  /\ balances' = r.bal
           /\ last' = [op |-> "spend_coins", coin_type |-> "Variable", amt |-> 1,
                       res |-> r.res]
    /\ calls' = <<>>
    /\ UNCHANGED <<env, alive, profile, quest_manager, execution_context>>

\* coin_manager_mut().spend_func_coin()
SpendFuncCoin ==
    /\ alive
    /\ LET r == spend_func_coin(balances)
       IN  /\ balances' = r.bal
           /\ last' = [op |-> "spend_coins", coin_type |-> "Function", amt |-> 1,
                       res |-> r.res]
    /\ calls' = <<>>
    /\ UNCHANGED <<env, alive, profile, quest_manager, execution_context>>

\* coin_manager_mut().add_coins(amt, coin_type)
AddCoins(amt, coin_type) ==
    /\ alive
    /\ get_balance(balances, coin_type) + amt <= MaxBalance
    /\ balances' = add_coins(balances, amt, coin_type)
    /\ last' = [op |-> "add_coins", coin_type |-> coin_type, amt |-> amt]
    /\ calls' = <<>>
    /\ UNCHANGED <<env, alive, profile, quest_manager, execution_context>>

\* coin_manager().get_balance(coin_type)
GetBalance(coin_type) ==
    /\ alive
    /\ last' = [op |-> "get_balance", coin_type |-> coin_type,
                res |-> get_balance(balances, coin_type)]
    /\ calls' = <<>>
    /\ UNCHANGED <<balances, env, alive, profile, quest_manager, execution_context>>

Next ==
    \/ \E expr \in Programs : EvalWithValidation(expr)
    \/ \E input \in Sources : Execute(input)
    \/ SpendVarCoin
    \/ SpendFuncCoin
    \/ \E amt \in 0..MaxAmt, coin_type \in CoinType : AddCoins(amt, coin_type)
    \/ \E coin_type \in CoinType : GetBalance(coin_type)

Spec == Init /\ [][Next]_vars

(***************************************************************************)
(* The evaluator on its own: eval against one environment, no ledger       *)
(***************************************************************************)
\* CoinManager::new
new == with_balances(10, 3)

InitEval ==
    /\ balances = new
    /\ env = EmptyEnv
    /\ last = [op |-> "new"]
    /\ calls = <<>>
    /\ alive = TRUE
    /\ profile \in Profiles
    /\ quest_manager = QuestManager_new
    /\ execution_context = ExecutionContext_new

\* parser.rs eval: eval_with_output with an output vector of its own
Eval(expr) ==
    /\ alive
    /\ LET r == eval_with_output(expr, env, <<>>, <<>>, 0, profile)
       IN  /\ BoundedEnv(r.env)
           /\ env' = r.env
           /\ calls' = r.log
           /\ alive' = (r.res.kind # "abort")
           /\ last' = [op |-> "eval", expr |-> expr, res |-> r.res,
                       printed |-> r.out]
    /\ UNCHANGED <<balances, profile, quest_manager, execution_context>>

NextEval == \E expr \in EvalPrograms : Eval(expr)

SpecEval == InitEval /\ [][NextEval]_vars

(***************************************************************************)
(* The front end on its own: texts through tokenize and parse_program, and *)
(* arithmetic texts through execute                                        *)
(***************************************************************************)
\* Parser::new(tokenize(input)).parse_program()
Parse(input) ==
    /\ alive
    /\ last' = [op |-> "parse_program", input |-> input,
                tokens |-> FrontEnd[input].tokens, ast |-> FrontEnd[input].ast]
    /\ alive' = (FrontEnd[input].ast.kind # "abort")
    /\ calls' = <<>>
    /\ UNCHANGED <<balances, env, profile, quest_manager, execution_context>>

NextParse ==
    \/ \E input \in ParseSources : Parse(input)
    \/ \E input \in ArithSources : Execute(input)

SpecParse == InitEval /\ [][NextParse]_vars

(***************************************************************************)
(* The Binary arm on its own: eval of one operator between two numbers     *)
(***************************************************************************)
\* operand values: the ends of the i64 range and small values of both signs
ArithOperands == {I64Min, -7, -1, 0, 1, 2, 7, I64Max}

ArithOps == {"Plus", "Minus", "Star", "Slash"}

\* (1 / 0) + y: both operands fail, each with an error of its own
BothOperandsFail == Binary(DivByZero, "Plus", Var("y"))

ArithPrograms ==
    {Binary(Number(a), op, Number(b)) :
        a \in ArithOperands, op \in ArithOps, b \in ArithOperands}
    \cup {BothOperandsFail}

NextArith == \E expr \in ArithPrograms : Eval(expr)

SpecArith == InitEval /\ [][NextArith]_vars

(***************************************************************************)
(* The quest manager on its own: quests added in any order, completion     *)
(* checked against execution contexts built with the context's methods     *)
(***************************************************************************)
\* quests added one by one: a with no prerequisites, b behind a, and a
\* second quest that reuses the id a
QuestA == Quest_new("a", <<PerformArithmetic>>, <<CoinReward("Variable", 1)>>)
QuestB ==
    new_with_difficulty("b", <<CreateVariable(<<>>)>>,
                        <<CoinReward("Function", 1)>>, <<"a">>)
QuestASecond ==
    new_with_difficulty("a", <<CreateVariable(<<"x">>)>>,
                        <<CoinReward("Variable", 3)>>, <<>>)
QuestPool == {QuestA, QuestB, QuestASecond}

\* `Binary(2 + 3)` and `Binary(y + 5)`
TextBinary23 == TextBinary \o <<"(", "2", " ", "+", " ", "3", ")">>
TextBinaryY5 == TextBinary \o <<"(", "y", " ", "+", " ", "5", ")">>

\* the contexts handed to check_completion
ContextEmpty == ExecutionContext_new
ContextArithmetic == record_expression(ExecutionContext_new, TextBinary23)
ContextVariable == add_variable(ExecutionContext_new, "x", 5)
ContextVariableArithmetic ==
    record_expression(add_variable(ExecutionContext_new, "y", 10), TextBinaryY5)
Contexts ==
    {ContextEmpty, ContextArithmetic, ContextVariable, ContextVariableArithmetic}

InitQuest ==
    /\ balances = new
    /\ env = EmptyEnv
    /\ last = [op |-> "new"]
    /\ calls = <<>>
    /\ alive = TRUE
    /\ profile = "debug"
    /\ quest_manager = QuestManager_new
    /\ execution_context = ExecutionContext_new

\* quest_manager.add_quest(quest)
AddQuest(quest) ==
    /\ quest_manager' = add_quest(quest_manager, quest)
    /\ last' = [op |-> "add_quest", quest |-> quest]
    /\ UNCHANGED <<balances, env, calls, alive, profile, execution_context>>

\* quest_manager.initialize_starter_quests()
InitializeStarterQuests ==
    /\ quest_manager' = initialize_starter_quests(quest_manager)
    /\ last' = [op |-> "initialize_starter_quests"]
    /\ UNCHANGED <<balances, env, calls, alive, profile, execution_context>>

\* quest_manager.check_completion(&context)
CheckCompletion(context) ==
    /\ LET r == check_completion(quest_manager, context)
       IN  /\ quest_manager' = r.manager
           /\ last' = [op |-> "check_completion", context |-> context,
                       rewards |-> r.rewards]
    /\ UNCHANGED <<balances, env, calls, alive, profile, execution_context>>

NextQuest ==
    \/ \E quest \in QuestPool : AddQuest(quest)
    \/ InitializeStarterQuests
    \/ \E context \in Contexts : CheckCompletion(context)

SpecQuest == InitQuest /\ [][NextQuest]_vars

(***************************************************************************)
(* The read/print loop: Repl::new and Repl::execute with its quest         *)
(* tracking                                                                *)
(***************************************************************************)
\* the characters of a name; the names of the model have one character
Chars(name) == <<name>>

\* `format!("Let({})", name)`, `format!("Var({})", name)`
TextLet(name) == <<"L", "e", "t", "(">> \o Chars(name) \o <<")">>
TextVar(name) == <<"V", "a", "r", "(">> \o Chars(name) \o <<")">>
\* `format!("FnDef({}, {} params)", name, params.len())`
TextFnDef(name, n) ==
    <<"F", "n", "D", "e", "f", "(">> \o Chars(name) \o <<",", " ">>
        \o Chars(to_string(n)) \o <<" ", "p", "a", "r", "a", "m", "s", ")">>
\* `format!("FnCall({}, {} args)", name, args.len())`
TextFnCallOf(name, n) ==
    TextFnCall \o <<"(">> \o Chars(name) \o <<",", " ">>
        \o Chars(to_string(n)) \o <<" ", "a", "r", "g", "s", ")">>

RECURSIVE track_expression_execution(_, _)
RECURSIVE TrackStatements(_, _, _)

\* the `for stmt in statements` loop of track_expression_execution
TrackStatements(context, statements, i) ==
    IF i > Len(statements) THEN context
    ELSE TrackStatements(track_expression_execution(context, statements[i]),
                         statements, i + 1)

\* Repl::track_expression_execution
track_expression_execution(context, expr) ==
    CASE expr.kind = "Number" ->
            record_expression(context, <<"N", "u", "m", "b", "e", "r">>)
      [] expr.kind = "String" ->
            record_expression(context, <<"S", "t", "r", "i", "n", "g">>)
      [] expr.kind = "Binary" ->
            record_expression(record_expression(context, TextBinary),
                              TextArithmetic)
      [] expr.kind = "Let" -> record_expression(context, TextLet(expr.name))
      [] expr.kind = "FnDef" ->
            record_expression(context, TextFnDef(expr.name, Len(expr.params)))
      [] expr.kind = "FnCall" ->
            record_expression(context, TextFnCallOf(expr.name, Len(expr.args)))
      [] expr.kind = "Var" -> record_expression(context, TextVar(expr.name))
      [] expr.kind = "Print" ->
            track_expression_execution(
                record_expression(context, <<"P", "r", "i", "n", "t">>),
                expr.expr)
      [] expr.kind = "Block" ->
            TrackStatements(
                record_expression(context, <<"B", "l", "o", "c", "k">>),
                expr.stmts, 1)

RECURSIVE UpdateStatements(_, _, _, _)
\* the Block arm of update_execution_context: a Let is entered with the
\* number the session env holds for its name, a FnDef with its parameters
UpdateStatements(context, statements, i, e) ==
    IF i > Len(statements) THEN context
    ELSE LET stmt == statements[i]
             c == CASE stmt.kind = "Let" ->
                        IF EnvHas(e, stmt.name) /\ e[stmt.name].kind = "Number"
                        THEN add_variable(context, stmt.name, e[stmt.name].n)
                        ELSE context
                    [] stmt.kind = "FnDef" ->
                        add_function(context, stmt.name, stmt.params, stmt.body)
                    [] OTHER -> context
         IN  UpdateStatements(c, statements, i + 1, e)

\* Repl::update_execution_context; the body text `format!("{:?}", body)` is
\* kept as the body itself
update_execution_context(context, expr, result, e) ==
    CASE expr.kind = "Let" -> add_variable(context, expr.name, result)
      [] expr.kind = "FnDef" ->
            add_function(context, expr.name, expr.params, expr.body)
      [] expr.kind = "Block" -> UpdateStatements(context, expr.stmts, 1, e)
      [] OTHER -> context

RECURSIVE AddOutputs(_, _, _)
\* `for output_line in output { self.execution_context.add_output(..) }`
AddOutputs(context, output, i) ==
    IF i > Len(output) THEN context
    ELSE AddOutputs(add_output(context, output[i]), output, i + 1)

RECURSIVE AddRewards(_, _, _)
\* the `for reward in rewards` loop of display_quest_completion_notification
AddRewards(bal, rewards, i) ==
    IF i > Len(rewards) THEN bal
    ELSE AddRewards(add_coins(bal, rewards[i].amount, rewards[i].coin_type),
                    rewards, i + 1)

\* `print("Hello World")`
SrcPrintHello ==
    <<"p", "r", "i", "n", "t", "(", "\"", "H", "e", "l", "l", "o", " ",
      "W", "o", "r", "l", "d", "\"", ")">>

\* the texts handed to the read/print loop
ReplSources ==
    { SrcBlank, SrcFnLetInBody, SrcDivByZero, SrcSpacedPrecedence, SrcLetX3,
      SrcTwoLets, SrcFnIdentity, SrcCallF10, SrcVarB, SrcPrintHello }

\* tokenize and parse_program on the texts of the read/print loop
ReplFrontEnd ==
    [input \in ReplSources |->
        LET tokens == tokenize(input)
        IN  [tokens |-> tokens, ast |-> parse_program(tokens)]]

\* Repl::new
InitRepl ==
    /\ balances = new
    /\ env = EmptyEnv
    /\ last = [op |-> "new"]
    /\ calls = <<>>
    /\ alive = TRUE
    /\ profile \in Profiles
    /\ quest_manager = initialize_starter_quests(QuestManager_new)
    /\ execution_context = ExecutionContext_new

\* the Ok arm of Repl::execute: the context takes the bindings and the
\* output, check_completion runs on it and the rewards are added to the
\* ledger
ExecuteOk(input, ast, tracked, r) ==
    LET context == AddOutputs(update_execution_context(tracked, ast, r.res.val, r.env),
                              r.output, 1)
        c == check_completion(quest_manager, context)
    IN  /\ Len(context.output) <= MaxRecorded
        /\ execution_context' = context
        /\ quest_manager' = c.manager
        /\ balances' = AddRewards(r.bal, c.rewards, 1)
        /\ last' = [op |-> "execute", input |-> input, expr |-> ast,
                    res |-> r.res, phase |-> r.phase, rewards |-> c.rewards]

\* Repl::execute from track_expression_execution on
ExecuteParsed(input, ast, tracked) ==
    LET r == eval_with_validation(ast, balances, env, profile)
    IN  /\ Len(tracked.executed_expressions) <= MaxRecorded
        /\ BoundedEnv(r.env)
        /\ env' = r.env
        /\ calls' = r.log
        /\ alive' = (r.res.kind # "abort")
        /\ IF r.res.kind = "ok" THEN ExecuteOk(input, ast, tracked, r)
           ELSE /\ execution_context' = tracked
                /\ balances' = r.bal
                /\ last' = [op |-> "execute", input |-> input, expr |-> ast,
                            res |-> r.res, phase |-> r.phase, rewards |-> <<>>]
                /\ UNCHANGED quest_manager

\* Repl::execute
ReplExecute(input) ==
    /\ alive
    /\ LET tokens == ReplFrontEnd[input].tokens
           ast == ReplFrontEnd[input].ast
       IN  IF tokens = <<>>
           THEN /\ last' = [op |-> "execute", input |-> input, phase |-> "tokenize",
                            rewards |-> <<>>]
                /\ calls' = <<>>
                /\ UNCHANGED <<balances, env, alive, quest_manager,
                               execution_context>>
           ELSE IF ast.kind # "ok"
           THEN /\ last' = [op |-> "execute", input |-> input, phase |-> "parse",
                            res |-> IF ast.kind = "err" THEN Err(ast.err) ELSE Abort,
                            rewards |-> <<>>]
                /\ calls' = <<>>
                /\ alive' = (ast.kind # "abort")
                /\ UNCHANGED <<balances, env, quest_manager, execution_context>>
           ELSE ExecuteParsed(input, ast.node,
                              track_expression_execution(execution_context, ast.node))
    /\ UNCHANGED profile

NextRepl == \E input \in ReplSources : ReplExecute(input)

SpecRepl == InitRepl /\ [][NextRepl]_vars

(***************************************************************************)
(* Properties                                                              *)
(***************************************************************************)
RECURSIVE CountKind(_, _)
RECURSIVE CountKindList(_, _, _)

CountKindList(exprs, i, kind) ==
    IF i > Len(exprs) THEN 0
    ELSE CountKind(exprs[i], kind) + CountKindList(exprs, i + 1, kind)

\* the number of nodes of one kind in an AST
CountKind(expr, kind) ==
    (IF expr.kind = kind THEN 1 ELSE 0) +
    CASE expr.kind \in {"Number", "Var", "String"} -> 0
      [] expr.kind = "FnDef" -> CountKind(expr.body, kind)
      [] expr.kind = "Binary" -> CountKind(expr.lhs, kind) + CountKind(expr.rhs, kind)
      [] expr.kind = "Let" -> CountKind(expr.val, kind)
      [] expr.kind = "FnCall" -> CountKindList(expr.args, 1, kind)
      [] expr.kind = "Block" -> CountKindList(expr.stmts, 1, kind)
      [] expr.kind = "Print" -> CountKind(expr.expr, kind)

\* the number of entries of one category among the first k of a cost list
CountCoin(costs, coin_type, k) ==
    Cardinality({i \in 1..k : costs[i].coin_type = coin_type})

\* every AST of the model: those handed in directly and those parsed
AllAsts ==
    Programs \cup EvalPrograms \cup
    {FrontEnd[input].ast.node :
        input \in {i \in Sources : FrontEnd[i].ast.kind = "ok"}}

\* the step just taken was a call of eval_with_validation (directly or
\* from execute)
Validated ==
    /\ last'.op \in {"eval_with_validation", "execute"}
    /\ last'.phase \in {"validate", "spend", "evaluate"}

\* C1: validate_expression checks every cost entry against the same,
\* unchanged balance: for every AST it succeeds exactly when (there is no
\* Let node or Variable >= 1) and (there is no FnDef node or Function >= 1),
\* however many entries of a category there are.
C1_ValidationNotCumulative ==
    \A expr \in AllAsts :
        (validate_expression(balances, expr).kind = "ok")
        <=> /\ (CountKind(expr, "Let") = 0 \/ balances["Variable"] >= 1)
            /\ (CountKind(expr, "FnDef") = 0 \/ balances["Function"] >= 1)

\* two Let nodes passed validation against a Variable balance of exactly 1:
\* the first was spent, the second found the balance empty
C1_Witness ==
    /\ last.op = "eval_with_validation"
    /\ last.expr = LetDivLet
    /\ last.phase = "spend"
    /\ last.spent = 1
    /\ balances["Variable"] = 0

\* C2: after validation has passed, spending fails exactly when the cost
\* list holds more entries of some category than that category's balance;
\* it then stops at the first entry that finds its category at 0, returns
\* InsufficientFunds{1, 0, category}, and the entries before it stay spent.
C2_SpendSequentialNoRefund ==
    [][ (Validated /\ last'.phase # "validate") =>
          LET costs == calculate_costs(last'.expr)
              k == last'.spent
          IN  /\ (last'.phase = "spend")
                    <=> (\E ct \in CoinType :
                            CountCoin(costs, ct, Len(costs)) > balances[ct])
              /\ last'.phase = "spend" =>
                    /\ k < Len(costs)
                    /\ CountCoin(costs, costs[k + 1].coin_type, k)
                            = balances[costs[k + 1].coin_type]
                    /\ \A j \in 1..k :
                            CountCoin(costs, costs[j].coin_type, j - 1)
                                < balances[costs[j].coin_type]
                    /\ last'.res = Err(InsufficientFunds(1, 0, costs[k + 1].coin_type))
                    /\ \A ct \in CoinType :
                            balances'[ct] = balances[ct] - CountCoin(costs, ct, k)
                    /\ balances'[costs[k + 1].coin_type] = 0
      ]_vars

\* `let x = 3; let b = 2` executed against Variable 1: the call failed on
\* its second entry and left Variable at 0
C2_Witness ==
    /\ last.op = "execute"
    /\ last.input = SrcTwoLets
    /\ last.phase = "spend"
    /\ last.spent = 1
    /\ last.res = Err(InsufficientFunds(1, 0, "Variable"))
    /\ balances["Variable"] = 0

\* the first entry of a cost list whose amount exceeds the balance of its
\* category
FirstUnaffordable(costs, bal) ==
    CHOOSE i \in 1..Len(costs) :
        /\ costs[i].amt > bal[costs[i].coin_type]
        /\ \A j \in 1..(i - 1) : costs[j].amt <= bal[costs[j].coin_type]

\* C3: when validation fails, the error is InsufficientFunds{required,
\* available, category} of the first cost entry in traversal order whose
\* amount exceeds the balance of its category, and neither the ledger nor
\* the environment has changed.
C3_ValidationFailureFirstEntryNoChange ==
    [][ (Validated /\ last'.phase = "validate") =>
          LET costs == calculate_costs(last'.expr)
              c == costs[FirstUnaffordable(costs, balances)]
          IN  /\ \E i \in 1..Len(costs) : costs[i].amt > balances[costs[i].coin_type]
              /\ last'.res = Err(InsufficientFunds(c.amt, balances[c.coin_type],
                                                   c.coin_type))
              /\ balances' = balances
              /\ env' = env
      ]_vars

\* `fn f(a){a}` against {Variable 1, Function 0}
C3_Witness ==
    /\ last.op = "execute"
    /\ last.input = SrcFnIdentity
    /\ last.phase = "validate"
    /\ last.res = Err(InsufficientFunds(1, 0, "Function"))
    /\ balances = with_balances(1, 0)

\* C4: the evaluator runs only after every cost entry has been spent: when
\* validation or a spend fails, the environment is unchanged, no function
\* was called and no line was printed; when the evaluator ran, all entries
\* of the cost list had been spent.
C4_ValidateSpendEvaluate ==
    [][ Validated =>
          /\ last'.phase \in {"validate", "spend"} =>
                /\ last'.res.kind = "err"
                /\ last'.res.err.variant = "CoinError"
                /\ env' = env
                /\ last'.printed = <<>>
                /\ last'.output = <<>>
                /\ calls' = <<>>
          /\ last'.phase = "evaluate" =>
                /\ last'.spent = Len(calculate_costs(last'.expr))
                /\ \A ct \in CoinType :
                        balances'[ct] = balances[ct]
                            - CountCoin(calculate_costs(last'.expr), ct,
                                        Len(calculate_costs(last'.expr)))
      ]_vars

\* a spend failed in a Block whose first statement is a Let: x was not bound
C4_Witness ==
    /\ last.op = "eval_with_validation"
    /\ last.expr = LetDivLet
    /\ last.phase = "spend"
    /\ ~EnvHas(env, "x")

\* C5: when eval_with_validation returns a RuntimeError, every coin of the
\* cost list has been spent and stays spent.
C5_RuntimeErrorKeepsCoinsSpent ==
    [][ (Validated /\ last'.res.kind = "err"
                   /\ last'.res.err.variant = "RuntimeError") =>
          LET costs == calculate_costs(last'.expr)
          IN  /\ last'.phase = "evaluate"
              /\ \A ct \in CoinType :
                    balances'[ct] = balances[ct] - CountCoin(costs, ct, Len(costs))
      ]_vars

\* `let x = 1 / 0` failed with division by zero after its coin was spent
C5_Witness ==
    /\ last.op = "execute"
    /\ last.input = SrcLetDivByZero
    /\ last.res = Err(RuntimeError("Division by zero", "", 0, 0))
    /\ last.spent = 1
    /\ balances["Variable"] < MaxBalance

\* C6: balances change only by spends (minus the amount) and add_coins
\* (plus the amount): get_balance changes nothing and returns the same
\* value when called again; tokenizing, parsing, validating and evaluating
\* change no balance, so a call of eval_with_validation changes the ledger
\* by the entries it spent and by nothing else, and an AST without Let and
\* FnDef leaves both balances as they were.
C6_BalancesChangeOnlyBySpendAndAdd ==
    [][ /\ last'.op = "get_balance" =>
            /\ balances' = balances
            /\ last'.res = balances[last'.coin_type]
            /\ (last.op = "get_balance" /\ last.coin_type = last'.coin_type)
                    => last'.res = last.res
        /\ (last'.op = "execute" /\ last'.phase \in {"tokenize", "parse"})
                => balances' = balances
        /\ Validated =>
            /\ \A ct \in CoinType :
                    balances'[ct] = balances[ct]
                        - CountCoin(calculate_costs(last'.expr), ct, last'.spent)
            /\ (CountKind(last'.expr, "Let") = 0 /\ CountKind(last'.expr, "FnDef") = 0)
                    => balances' = balances
        /\ balances' # balances =>
            \/ last'.op = "spend_coins" /\ last'.res.kind = "ok"
                    /\ balances' = [balances EXCEPT ![last'.coin_type] = @ - last'.amt]
            \/ last'.op = "add_coins"
                    /\ balances' = [balances EXCEPT ![last'.coin_type] = @ + last'.amt]
            \/ Validated /\ last'.spent > 0
      ]_vars

\* a function call was evaluated and returned a value
C6_Witness ==
    /\ last.op = "execute"
    /\ last.input = SrcCallG
    /\ last.phase = "evaluate"
    /\ last.res.kind = "ok"
    /\ last.costs = <<>>

\* C7: spend of amount a succeeds exactly when the balance is >= a, then
\* lowers that balance by a and leaves the other category alone; otherwise
\* it returns InsufficientFunds{a, balance, category} and changes nothing;
\* no balance is ever below 0.
C7_SpendAllOrNothing ==
    /\ \A ct \in CoinType : balances[ct] >= 0
    /\ \A ct \in CoinType, a \in 0..(MaxBalance + 1) :
          LET r == spend_coins(balances, ct, a)
          IN  /\ (r.res.kind = "ok") <=> (balances[ct] >= a)
              /\ r.res.kind = "ok" =>
                    /\ r.bal[ct] = balances[ct] - a
                    /\ \A other \in CoinType \ {ct} : r.bal[other] = balances[other]
              /\ r.res.kind # "ok" =>
                    /\ r.res = Err(InsufficientFunds(a, balances[ct], ct))
                    /\ r.bal = balances
              /\ \A c2 \in CoinType : r.bal[c2] >= 0

\* a spend was refused on an empty balance
C7_Witness ==
    /\ last.op = "spend_coins"
    /\ last.res.kind = "err"
    /\ balances[last.coin_type] = 0

\* C8 as the spec states it: in a session that has the coins and no binding
\* of b, the text `fn f(a) { let b = a + 1; b }` is accepted, `f(10)` right
\* after it yields 11, and b is still undefined in the session afterwards.
C8_SnapshotScopingExample ==
    [][ /\ (last'.op = "execute" /\ last'.input = SrcFnLetInBody
                /\ balances["Variable"] >= 1 /\ balances["Function"] >= 1)
            => last'.res.kind = "ok"
        /\ (last.op = "execute" /\ last.input = SrcFnLetInBody
                /\ last'.op = "execute" /\ last'.input = SrcCallF10
                /\ ~EnvHas(env, "b"))
            => (last'.res = Ok(11) /\ ~EnvHas(env', "b"))
      ]_vars

\* C8 amended: the text `fn f(a) { let b = a + 1; b }` is rejected by the
\* parser with UnexpectedToken for its `let` token (a function body is one
\* expression), and ledger and environment stay as they were, so `f(10)`
\* after it fails with "Undefined function" unless f was bound otherwise.
\* When f is bound to the function with the body `let b = a + 1; b` (as a
\* Block), `f(10)` yields 11, b was 11 in the callee frame, the session
\* environment is unchanged by the call, and looking up `b` in a session
\* that never bound it fails with "Undefined variable".
C8_LetBodyRejectedFrameDiscarded ==
    [][ /\ (last'.op = "execute" /\ last'.input = SrcFnLetInBody) =>
            /\ last'.phase = "parse"
            /\ \E k \in 1..Len(FrontEnd[SrcFnLetInBody].tokens) :
                    /\ FrontEnd[SrcFnLetInBody].tokens[k].token_type = "Let"
                    /\ last'.res = Err(UnexpectedToken("",
                                        FrontEnd[SrcFnLetInBody].tokens[k]))
            /\ balances' = balances
            /\ env' = env
        /\ (last'.op = "execute" /\ last'.input = SrcCallF10) =>
            /\ last'.phase = "evaluate"
            /\ balances' = balances
            /\ ~EnvHas(env, "f")
                    => last'.res = Err(RuntimeError("Undefined function", "f", 0, 0))
            /\ (EnvHas(env, "f") /\ env["f"] = FnLetInBody) =>
                    /\ last'.res = Ok(11)
                    /\ env' = env
                    /\ Len(calls') = 1
                    /\ calls'[1].frame_after["b"] = Number(11)
                    /\ calls'[1].frame_after["a"] = Number(10)
        /\ (last'.op = "execute" /\ last'.input = SrcVarB /\ ~EnvHas(env, "b")) =>
            /\ last'.res = Err(RuntimeError("Undefined variable", "b", 0, 0))
            /\ env' = env
      ]_vars

\* `f(10)` returned 11 from a frame that held b, in a session without b
C8_Witness ==
    /\ last.op = "execute"
    /\ last.input = SrcCallF10
    /\ last.res = Ok(11)
    /\ env["f"] = FnLetInBody
    /\ ~EnvHas(env, "b")
    /\ Len(calls) = 1
    /\ EnvHas(calls[1].frame_after, "b")

RECURSIVE ArgsEvaluated(_, _, _, _, _)
\* the arguments of a call evaluated left to right, each against the
\* environment the one before it left: the values, the environment after
\* the last of them, and whether all of them returned a value
ArgsEvaluated(args, i, e, vals, prof) ==
    IF i > Len(args) THEN [ok |-> TRUE, env |-> e, vals |-> vals]
    ELSE LET a == eval_with_output(args[i], e, <<>>, <<>>, 0, prof)
         IN  IF a.res.kind # "ok" THEN [ok |-> FALSE, env |-> a.env, vals |-> vals]
             ELSE ArgsEvaluated(args, i + 1, a.env, Append(vals, a.res.val), prof)

\* the names of a parameter list
ParamNames(params) == {params[j] : j \in 1..Len(params)}

\* C9: for every finished call, nested ones included, whether the body
\* returned a value or an error, the caller's map after the call is the map
\* it was when the body started; a call evaluated against the session
\* leaves the session environment as its arguments alone left it, and
\* exactly as it was when no argument binds anything.
C9_BodyInvisibleToCaller ==
    [][ /\ \A i \in 1..Len(calls') : calls'[i].after_env = calls'[i].caller_env
        /\ (last'.op = "eval" /\ last'.expr.kind = "FnCall" /\ alive') =>
            /\ (EnvHas(env, last'.expr.name) /\ env[last'.expr.name].kind = "FnDef"
                    /\ Len(env[last'.expr.name].params) = Len(last'.expr.args))
                => env' = ArgsEvaluated(last'.expr.args, 1, env, <<>>, profile).env
            /\ (CountKind(last'.expr, "Let") = 0 /\ CountKind(last'.expr, "FnDef") = 0)
                => env' = env
            /\ calls' # <<>> =>
                    /\ env' = calls'[Len(calls')].caller_env
                    /\ last'.res = calls'[Len(calls')].res
      ]_vars

\* g(x, b) rebound its parameter x in its frame and called f from there:
\* two calls finished, g's frame changed, the session kept its own x
C9_Witness ==
    /\ last.op = "eval"
    /\ last.expr = CallTwoArgs
    /\ Len(calls) = 2
    /\ calls[2].name = "g"
    /\ calls[2].frame_after # calls[2].frame
    /\ calls[2].frame_after["x"] # env["x"]
    /\ calls[1].name = "f"
    /\ calls[1].res.kind = "ok"

\* C10: the frame of every finished call is the caller's map as it was when
\* the call was entered, with every parameter bound to Number of the value
\* of its argument, the arguments evaluated left to right against the
\* caller's map; a parameter overrides a caller binding of its name; and
\* `g()` with g bound to `fn g() { x }` yields what x is bound to when g is
\* called, whenever x was bound.
C10_FrameIsCallTimeSnapshot ==
    [][ /\ \A i \in 1..Len(calls') :
            LET c == calls'[i]
                a == ArgsEvaluated(c.args, 1, c.entry_env, <<>>, profile)
            IN  /\ a.ok
                /\ c.caller_env = a.env
                /\ Len(a.vals) = Len(c.params)
                /\ DOMAIN c.frame = (DOMAIN c.entry_env) \cup ParamNames(c.params)
                /\ \A j \in 1..Len(c.params) :
                        (\A j2 \in (j + 1)..Len(c.params) : c.params[j2] # c.params[j])
                            => c.frame[c.params[j]] = Number(a.vals[j])
                /\ \A k \in (DOMAIN c.entry_env) \ ParamNames(c.params) :
                        c.frame[k] = c.entry_env[k]
        /\ FrontEnd[SrcFnReadsX].ast = POk(FnReadsX, Len(FrontEnd[SrcFnReadsX].tokens))
        /\ FrontEnd[SrcLetX3].ast = POk(Let("x", Number(3)), Len(FrontEnd[SrcLetX3].tokens))
        /\ FrontEnd[SrcCallG].ast = POk(FnCall("g", <<>>), Len(FrontEnd[SrcCallG].tokens))
        /\ (last'.op = "eval" /\ last'.expr = FnCall("g", <<>>)
                /\ EnvHas(env, "g") /\ env["g"] = FnReadsX) =>
            /\ (EnvHas(env, "x") /\ env["x"].kind = "Number")
                    => last'.res = Ok(env["x"].n)
            /\ ~EnvHas(env, "x")
                    => last'.res = Err(RuntimeError("Undefined variable", "x", 0, 0))
      ]_vars

\* g(x, b) was called in a session whose x was bound to another value than
\* the argument: inside the frame x was the argument
C10_Witness ==
    /\ last.op = "eval"
    /\ last.expr = CallTwoArgs
    /\ calls # <<>>
    /\ LET c == calls[Len(calls)]
       IN  /\ c.name = "g"
           /\ EnvHas(c.entry_env, "x")
           /\ c.entry_env["x"] = Number(3)
           /\ c.frame["x"] = Number(1)
           /\ c.frame["b"] = Number(2)

\* an environment with one name bound anew, written out binding by binding
Rebound(e, name, binding, e2) ==
    /\ DOMAIN e2 = (DOMAIN e) \cup {name}
    /\ e2[name] = binding
    /\ \A k \in (DOMAIN e) \ {name} : e2[k] = e[k]

\* C11: Let(name, e) with e a value v binds name to Number(v) in the
\* session environment, whatever name was bound to before, leaves every
\* other binding alone and returns v; FnDef binds name to the function
\* record in the same way and returns 0; a Let whose value fails leaves the
\* environment as it was; the bindings persist, so `x + 1` evaluated later
\* yields the bound value plus 1.
C11_LetFnDefLastWriteWins ==
    [][ last'.op = "eval" =>
          /\ (last'.expr.kind = "Let" /\ last'.expr.val.kind = "Number") =>
                /\ last'.res = Ok(last'.expr.val.n)
                /\ Rebound(env, last'.expr.name, Number(last'.expr.val.n), env')
          /\ last'.expr = LetDivByZero =>
                /\ last'.res.kind = "err"
                /\ last'.res.err.msg = "Division by zero"
                /\ env' = env
          /\ last'.expr.kind = "FnDef" =>
                /\ last'.res = Ok(0)
                /\ Rebound(env, last'.expr.name,
                           FnDef(last'.expr.name, last'.expr.params, last'.expr.body),
                           env')
          /\ last'.expr = OnePlus(Var("x")) =>
                /\ env' = env
                /\ ("x" \in DOMAIN env /\ env["x"].kind = "Number")
                        => last'.res = Ok(env["x"].n + 1)
      ]_vars

\* `x + 1` yielded 6 in a session where x had been rebound to 5 while f was
\* bound to a number
C11_Witness ==
    /\ last.op = "eval"
    /\ last.expr = OnePlus(Var("x"))
    /\ last.res = Ok(6)
    /\ env["x"] = Number(5)
    /\ "f" \in DOMAIN env
    /\ env["f"] = Number(5)

\* C12: a call of a name bound to a function with another number of
\* arguments than it has parameters returns the RuntimeError "expects N
\* arguments, got M" with N the number of parameters and M the number of
\* arguments, evaluates no argument and no body and leaves the environment
\* as it was; a call of a name that is unbound or bound to a number returns
\* the undefined-function RuntimeError, and leaves the environment as it
\* was.
C12_ArityMismatchAndUndefinedFunction ==
    [][ (last'.op = "eval" /\ last'.expr.kind = "FnCall") =>
          LET name == last'.expr.name
              args == last'.expr.args
          IN  /\ (name \in DOMAIN env /\ env[name].kind = "FnDef"
                        /\ Len(env[name].params) # Len(args)) =>
                    /\ last'.res.kind = "err"
                    /\ last'.res.err.variant = "RuntimeError"
                    /\ last'.res.err.msg = "Function expects arguments"
                    /\ last'.res.err.name = name
                    /\ last'.res.err.n = Len(env[name].params)
                    /\ last'.res.err.m = Len(args)
                    /\ env' = env
                    /\ calls' = <<>>
                    /\ last'.printed = <<>>
              /\ (name \notin DOMAIN env \/ env[name].kind # "FnDef") =>
                    /\ last'.res.kind = "err"
                    /\ last'.res.err.variant = "RuntimeError"
                    /\ last'.res.err.msg = "Undefined function"
                    /\ last'.res.err.name = name
                    /\ env' = env
                    /\ calls' = <<>>
      ]_vars

\* g(let x = 1, x + 1) was refused by a g without parameters: the first
\* argument did not bind x
C12_Witness ==
    /\ last.op = "eval"
    /\ last.expr = CallTwoArgs
    /\ last.res.kind = "err"
    /\ last.res.err.msg = "Function expects arguments"
    /\ last.res.err.n = 0
    /\ last.res.err.m = 2
    /\ "x" \notin DOMAIN env

\* C20: Var(name) returns n when name is bound to Number(n), the RuntimeError
\* "Cannot use function ... as a variable. Did you mean to call it with
\* parentheses?" when it is bound to a function and the RuntimeError
\* "Undefined variable" when it is unbound; the environment is unchanged in
\* all three cases.
C20_VarLookup ==
    [][ (last'.op = "eval" /\ last'.expr.kind = "Var") =>
          LET name == last'.expr.name
          IN  /\ env' = env
              /\ calls' = <<>>
              /\ (name \in DOMAIN env /\ env[name].kind = "Number")
                    => last'.res = Ok(env[name].n)
              /\ (name \in DOMAIN env /\ env[name].kind = "FnDef") =>
                    /\ last'.res.kind = "err"
                    /\ last'.res.err.variant = "RuntimeError"
                    /\ last'.res.err.msg = "Cannot use function as a variable"
                    /\ last'.res.err.name = name
              /\ name \notin DOMAIN env =>
                    /\ last'.res.kind = "err"
                    /\ last'.res.err.variant = "RuntimeError"
                    /\ last'.res.err.msg = "Undefined variable"
                    /\ last'.res.err.name = name
      ]_vars

\* x was looked up while bound to a function
C20_Witness ==
    /\ last.op = "eval"
    /\ last.expr = Var("x")
    /\ last.res.kind = "err"
    /\ last.res.err.msg = "Cannot use function as a variable"
    /\ env["x"] = FnNamedX

\* q is the quotient of a by b truncated toward zero
IsTruncatedQuotient(q, a, b) ==
    LET r == a - q * b
    IN  /\ (IF r < 0 THEN -r ELSE r) < (IF b < 0 THEN -b ELSE b)
        /\ (r = 0 \/ (r < 0) = (a < 0))

\* the mathematical result of + - * on two integers
Exact(a, op, b) ==
    CASE op = "Plus" -> a + b
      [] op = "Minus" -> a - b
      [] op = "Star" -> a * b

\* C13 as the spec states it: a Binary node between two i64 values never
\* ends the process; `/` returns "Division by zero" when the right operand
\* is 0 and otherwise the quotient truncated toward zero; `+`, `-`, `*`
\* return the result, which is the exact one whenever that is in the i64
\* range; the left operand is evaluated before the right one.
C13_BinaryArithmeticNeverAborts ==
    /\ (last.op = "eval" /\ last.expr.kind = "Binary"
            /\ last.expr.lhs.kind = "Number" /\ last.expr.rhs.kind = "Number") =>
          LET a == last.expr.lhs.n
              b == last.expr.rhs.n
              op == last.expr.op
          IN  /\ last.res.kind # "abort"
              /\ (op = "Slash" /\ b = 0) =>
                    (last.res.kind = "err" /\ last.res.err.msg = "Division by zero")
              /\ (op = "Slash" /\ b # 0) =>
                    (last.res.kind = "ok" /\ IsTruncatedQuotient(last.res.val, a, b))
              /\ op # "Slash" =>
                    /\ last.res.kind = "ok"
                    /\ last.res.val >= I64Min /\ last.res.val <= I64Max
                    /\ (Exact(a, op, b) >= I64Min /\ Exact(a, op, b) <= I64Max)
                            => last.res.val = Exact(a, op, b)
    /\ (last.op = "eval" /\ last.expr = BothOperandsFail) =>
          (last.res.kind = "err" /\ last.res.err.msg = "Division by zero")

\* C14 as the spec states it: every evaluation ends with a value or a
\* returned error, calls of a function that calls itself included.
C14_EvaluationTerminates ==
    last.op = "eval" => last.res.kind \in {"ok", "err"}

\* an AST with Let and FnDef nodes under every kind of node that has
\* children
MixedCosts ==
    Block(<<Let("a", FnDef("g", <<>>, Let("b", Number(1)))),
            FnCall("f", <<Let("c", Number(1)), FnDef("h", <<"p">>, Var("p")),
                          StringLit("s")>>),
            PrintExpr(Binary(FnDef("k", <<>>, Number(2)), "Plus",
                             Let("d", Var("a")))),
            Var("a"), Number(3)>>)

\* the entries of MixedCosts in pre-order
MixedCostsEntries ==
    <<CoinCost("Variable", 1), CoinCost("Function", 1), CoinCost("Variable", 1),
      CoinCost("Variable", 1), CoinCost("Function", 1),
      CoinCost("Function", 1), CoinCost("Variable", 1)>>

\* the direct children of a node, in source order
Children(expr) ==
    CASE expr.kind \in {"Number", "Var", "String"} -> <<>>
      [] expr.kind = "FnDef" -> <<expr.body>>
      [] expr.kind = "Binary" -> <<expr.lhs, expr.rhs>>
      [] expr.kind = "Let" -> <<expr.val>>
      [] expr.kind = "FnCall" -> expr.args
      [] expr.kind = "Block" -> expr.stmts
      [] expr.kind = "Print" -> <<expr.expr>>

RECURSIVE Flatten(_, _)
\* the concatenation of a sequence of sequences
Flatten(seqs, i) == IF i > Len(seqs) THEN <<>> ELSE seqs[i] \o Flatten(seqs, i + 1)

RECURSIVE Subterms(_)
\* a node and all nodes below it
Subterms(expr) ==
    {expr} \cup UNION {Subterms(Children(expr)[i]) : i \in 1..Len(Children(expr))}

\* C15: for every AST and every node of it, the cost list has one
\* {Variable, 1} per Let node, one {Function, 1} per FnDef node and nothing
\* else; it is the node's own entry (Let, FnDef) followed by the lists of
\* its children in source order.
C15_CostsArePreorderWalk ==
    \A ast \in AllAsts \cup {MixedCosts} : \A expr \in Subterms(ast) :
        LET costs == calculate_costs(expr)
            own == CASE expr.kind = "Let" -> <<CoinCost("Variable", 1)>>
                     [] expr.kind = "FnDef" -> <<CoinCost("Function", 1)>>
                     [] OTHER -> <<>>
        IN  /\ \A i \in 1..Len(costs) :
                    costs[i] \in {CoinCost("Variable", 1), CoinCost("Function", 1)}
            /\ CountCoin(costs, "Variable", Len(costs)) = CountKind(expr, "Let")
            /\ CountCoin(costs, "Function", Len(costs)) = CountKind(expr, "FnDef")
            /\ costs = own \o Flatten([i \in 1..Len(Children(expr)) |->
                                            calculate_costs(Children(expr)[i])], 1)
            /\ expr = MixedCosts => costs = MixedCostsEntries
            /\ (last.op = "eval_with_validation" /\ last.phase = "evaluate"
                    /\ last.expr = expr) => last.costs = costs

\* the function f with a Let in its body was charged Function, then Variable
C15_Witness ==
    /\ last.op = "eval_with_validation"
    /\ last.expr = FnLetInBody
    /\ last.phase = "evaluate"
    /\ last.costs = <<CoinCost("Function", 1), CoinCost("Variable", 1)>>
    /\ last.spent = 2

\* the number of `(` minus the number of `)` among tokens lo..k-1
ParenDepth(tokens, lo, k) ==
    Cardinality({i \in lo..(k - 1) : tokens[i].token_type = "LParen"})
    - Cardinality({i \in lo..(k - 1) : tokens[i].token_type = "RParen"})

\* the positions in lo..hi of the operators of one level outside parentheses
TopLevelOps(tokens, lo, hi, types) ==
    {k \in lo..hi : tokens[k].token_type \in types /\ ParenDepth(tokens, lo, k) = 0}

Largest(S) == CHOOSE x \in S : \A y \in S : y <= x

RECURSIVE DecimalValue(_)
\* the value of a run of decimal digits
DecimalValue(text) ==
    IF text = <<>> THEN 0
    ELSE 10 * DecimalValue(SubSeq(text, 1, Len(text) - 1)) + DigitVal(text[Len(text)])

\* the value of `l op r` in integer arithmetic with truncating division,
\* "div0" for a division by zero
Combined(l, op, r) ==
    IF l.kind # "ok" THEN l
    ELSE IF r.kind # "ok" THEN r
    ELSE IF op = "Slash"
    THEN IF r.val = 0 THEN [kind |-> "div0"]
         ELSE LET m == IF l.val < 0 THEN -l.val ELSE l.val
              IN  Ok(CHOOSE q \in (-m)..m : IsTruncatedQuotient(q, l.val, r.val))
    ELSE Ok(Exact(l.val, op, r.val))

RECURSIVE Reading(_, _, _)
\* the usual reading of an arithmetic token sequence: it splits at the last
\* `+` or `-` outside parentheses, else at the last `*` or `/` outside
\* parentheses, else it is a parenthesised sequence or a number
Reading(tokens, lo, hi) ==
    IF TopLevelOps(tokens, lo, hi, {"Plus", "Minus"}) # {}
    THEN Combined(
            Reading(tokens, lo, Largest(TopLevelOps(tokens, lo, hi, {"Plus", "Minus"})) - 1),
            tokens[Largest(TopLevelOps(tokens, lo, hi, {"Plus", "Minus"}))].token_type,
            Reading(tokens, Largest(TopLevelOps(tokens, lo, hi, {"Plus", "Minus"})) + 1, hi))
    ELSE IF TopLevelOps(tokens, lo, hi, {"Star", "Slash"}) # {}
    THEN Combined(
            Reading(tokens, lo, Largest(TopLevelOps(tokens, lo, hi, {"Star", "Slash"})) - 1),
            tokens[Largest(TopLevelOps(tokens, lo, hi, {"Star", "Slash"}))].token_type,
            Reading(tokens, Largest(TopLevelOps(tokens, lo, hi, {"Star", "Slash"})) + 1, hi))
    ELSE IF tokens[lo].token_type = "LParen" THEN Reading(tokens, lo + 1, hi - 1)
    ELSE Ok(DecimalValue(tokens[lo].value[1]))

\* C16: every arithmetic text is parsed to its end, and the tree evaluates
\* to the value of the usual reading (`*` and `/` before `+` and `-`, left
\* to right within a level, parentheses first), or returns "Division by
\* zero" where that reading divides by zero; `2 + 3 * 4` is 14,
\* `((2 + 3)) * 4` is 20, `8 - 3 - 2` is 3.
C16_PrecedenceAndAssociativity ==
    (last.op = "execute" /\ last.input \in ArithSources) =>
        LET tokens == FrontEnd[last.input].tokens
            reading == Reading(tokens, 1, Len(tokens))
        IN  /\ FrontEnd[last.input].ast.kind = "ok"
            /\ FrontEnd[last.input].ast.pos = Len(tokens)
            /\ last.phase = "evaluate"
            /\ reading.kind = "ok" => last.res = Ok(reading.val)
            /\ reading.kind = "div0" =>
                    (last.res.kind = "err" /\ last.res.err.msg = "Division by zero")
            /\ last.input = SrcSpacedPrecedence => last.res = Ok(14)
            /\ last.input = SrcNestedParens => last.res = Ok(20)
            /\ last.input = SrcLeftAssoc => last.res = Ok(3)

\* `8-4/3*2` was executed: 8 - ((4 / 3) * 2) is 6
C16_Witness ==
    /\ last.op = "execute"
    /\ last.input = <<"8", "-", "4", "/", "3", "*", "2">>
    /\ last.res = Ok(6)

C18_ListsMatchGrammar ==
    (last.op = "parse_program" /\ last.ast.kind = "ok"
        /\ CountKind(last.ast.node, "FnCall") + CountKind(last.ast.node, "FnDef") > 0) =>
        /\ ParenDepth(last.tokens, 1, last.ast.pos + 1) = 0
        /\ \A i \in 1..(last.ast.pos - 1) :
                ~(last.tokens[i].token_type = "Comma"
                    /\ last.tokens[i + 1].token_type = "RParen")

\* C19 as the spec states it: parse_program returns an Expr or one of the
\* three ParseError values for every token sequence, and never ends the
\* process.
C19_ParsingIsTotal ==
    last.op = "parse_program" =>
        /\ last.ast.kind \in {"ok", "err"}
        /\ last.ast.kind = "err" =>
            /\ last.ast.err.variant = "ParseError"
            /\ last.ast.err.error \in {"UnexpectedToken", "ExpectedToken", "UnexpectedEof"}

\* the decimal text of an integer below 1000 in magnitude, digit by digit
Digits == <<"0", "1", "2", "3", "4", "5", "6", "7", "8", "9">>
DecimalText(n) ==
    LET a == IF n < 0 THEN -n ELSE n
    IN  (IF n < 0 THEN "-" ELSE "")
        \o (IF a >= 100 THEN Digits[(a \div 100) + 1] ELSE "")
        \o (IF a >= 10 THEN Digits[((a \div 10) % 10) + 1] ELSE "")
        \o Digits[(a % 10) + 1]

\* C21: a Print that succeeds evaluates to 0 and appends exactly one line:
\* the literal text for a String, the decimal value for a Number, for a Var
\* bound to a number and for any other inner expression, after the lines the
\* inner expression appended; a Print of an unbound or non-number Var, or
\* one whose inner expression fails, returns that error and appends no line.
C21_PrintAppendsOneLine ==
    [][ (last'.op = "eval" /\ last'.expr.kind = "Print") =>
          LET inner == last'.expr.expr
              v == eval_with_output(inner, env, <<>>, <<>>, 0, profile)
          IN  /\ last'.expr = PrintNested =>
                      last'.printed = <<"1", "2">> /\ last'.res = Ok(0)
              /\ last'.expr = PrintFailing =>
                      last'.printed = <<"1">> /\ last'.res.kind = "err"
              /\ CASE inner.kind = "String" ->
                      /\ last'.res = Ok(0)
                      /\ last'.printed = <<inner.s>>
                      /\ env' = env
                [] inner.kind = "Number" ->
                      /\ last'.res = Ok(0)
                      /\ last'.printed = <<DecimalText(inner.n)>>
                      /\ env' = env
                [] inner.kind = "Var" ->
                      /\ env' = env
                      /\ IF inner.name \in DOMAIN env
                            /\ env[inner.name].kind = "Number"
                         THEN /\ last'.res = Ok(0)
                              /\ last'.printed = <<DecimalText(env[inner.name].n)>>
                         ELSE /\ last'.res.kind = "err"
                              /\ last'.res.err.variant = "RuntimeError"
                              /\ last'.res.err.msg = "Undefined variable:"
                              /\ last'.res.err.name = inner.name
                              /\ last'.printed = <<>>
                [] OTHER ->
                      /\ env' = v.env
                      /\ IF v.res.kind = "ok"
                         THEN /\ last'.res = Ok(0)
                              /\ last'.printed = v.out \o <<DecimalText(v.res.val)>>
                         ELSE /\ last'.res = v.res
                              /\ last'.printed = v.out
      ]_vars

\* a negative number was printed
C21_Witness ==
    /\ last.op = "eval"
    /\ last.expr = PrintExpr(Number(-7))
    /\ last.res = Ok(0)
    /\ last.printed = <<"-7">>

\* the per-statement results of a block: runs[i] is what statement i leaves
\* when it starts from what statement i - 1 left
StatementRuns(stmts, e, prof) ==
    LET runs[i \in 0..Len(stmts)] ==
            IF i = 0 THEN EvalState(Ok(0), e, <<>>, <<>>)
            ELSE eval_with_output(stmts[i], runs[i - 1].env, runs[i - 1].out,
                                  runs[i - 1].log, 0, prof)
    IN  runs

\* C22: a Block evaluates its statements in order against the same
\* environment and returns the value of the last one (0 when empty); at
\* the first statement that fails it returns that error, the later
\* statements are not evaluated and the changes of the earlier ones stay.
C22_BlockStopsAtFirstError ==
    [][ (last'.op = "eval" /\ last'.expr.kind = "Block") =>
          LET stmts == last'.expr.stmts
              runs == StatementRuns(stmts, env, profile)
              failing == { i \in 1..Len(stmts) : runs[i].res.kind # "ok" }
              stop == IF failing = {} THEN Len(stmts)
                      ELSE CHOOSE i \in failing : \A j \in failing : i <= j
          IN  /\ last'.res = runs[stop].res
              /\ env' = runs[stop].env
              /\ last'.printed = runs[stop].out
      ]_vars

\* the third statement failed: x is bound by the second one, the print and
\* the Let after the failure did not happen
C22_Witness ==
    /\ last.op = "eval"
    /\ last.expr = BlockFailsMidway
    /\ last.res.kind = "err"
    /\ last.res.err.msg = "Division by zero"
    /\ last.printed = <<"1">>
    /\ env["x"] = Number(3)
    /\ "b" \notin DOMAIN env


\* the characters of the pattern [A-Za-z0-9_]
AsciiWord == AsciiLower \cup AsciiUpper \cup AsciiDigit \cup {"_"}

RECURSIVE AsciiRunEnd(_, _)
\* the position after the run of AsciiWord characters that starts at i
AsciiRunEnd(chars, i) ==
    IF i <= Len(chars) /\ chars[i] \in AsciiWord THEN AsciiRunEnd(chars, i + 1)
    ELSE i

RECURSIVE AsciiIdentifiers(_, _)
\* the maximal runs of a text that match [A-Za-z_][A-Za-z0-9_]*, in order
AsciiIdentifiers(chars, i) ==
    IF i > Len(chars) THEN <<>>
    ELSE IF chars[i] \in AsciiLower \cup AsciiUpper \cup {"_"}
    THEN <<SubSeq(chars, i, AsciiRunEnd(chars, i) - 1)>>
            \o AsciiIdentifiers(chars, AsciiRunEnd(chars, i))
    ELSE IF chars[i] \in AsciiDigit
    THEN AsciiIdentifiers(chars, AsciiRunEnd(chars, i))
    ELSE AsciiIdentifiers(chars, i + 1)

\* the tokens of the identifier arm, in order
WordTokens(tokens) ==
    SelectSeq(tokens, LAMBDA t : t.token_type \in {"Identifier", "Let", "Fn", "Print"})

\* C23 as the spec states it: the identifier and keyword tokens of a text
\* are its maximal runs matching [A-Za-z_][A-Za-z0-9_]*, a character
\* outside that set ends the identifier and is skipped, and the token is a
\* keyword exactly when its whole text is let, fn or print.
C23_IdentifiersAreAsciiRuns ==
    (last.op = "parse_program" /\ \A i \in 1..Len(last.input) : last.input[i] # "\"") =>
        LET words == WordTokens(last.tokens)
            runs == AsciiIdentifiers(last.input, 1)
        IN  /\ Len(words) = Len(runs)
            /\ \A i \in 1..Len(words) :
                /\ words[i].value = <<runs[i]>>
                /\ words[i].token_type =
                        (CASE runs[i] = <<"l", "e", "t">> -> "Let"
                           [] runs[i] = <<"f", "n">> -> "Fn"
                           [] runs[i] = <<"p", "r", "i", "n", "t">> -> "Print"
                           [] OTHER -> "Identifier")


\* C26: whenever eval_with_validation gets past the spend phase, the
\* Variable balance is lower than before the call by the number of Let
\* nodes of the AST and the Function balance by the number of FnDef nodes,
\* whatever evaluation does afterwards: a re-binding is charged again, a
\* call is charged nothing, a node evaluation never reaches is charged.
C26_ChargeIsNodeCount ==
    [][ (last'.op \in {"eval_with_validation", "execute"}
            /\ "phase" \in DOMAIN last' /\ last'.phase = "evaluate") =>
          /\ balances'.Variable
                = balances.Variable - CountKind(last'.expr, "Let")
          /\ balances'.Function
                = balances.Function - CountKind(last'.expr, "FnDef")
      ]_vars

\* both Lets of the block were paid for, the second was never reached
C26_Witness ==
    /\ last.op = "eval_with_validation"
    /\ last.expr = LetDivLet
    /\ last.phase = "evaluate"
    /\ last.res.kind = "err"
    /\ last.spent = 2
    /\ balances.Variable = 0
    /\ "b" \notin DOMAIN env


\* every binding of an environment is a Number or a FnDef
OnlyNumbersAndFunctions(e) ==
    \A name \in DOMAIN e : e[name].kind \in {"Number", "FnDef"}

\* C27: starting from an empty session environment, every binding in the
\* session environment and in every callee frame is a Number or a FnDef
\* (Let and parameter binding store evaluated numbers, FnDef stores a
\* function), so the "is not a number" branch of Var lookup is never taken.
C27_BindingsAreNumbersOrFunctions ==
    /\ OnlyNumbersAndFunctions(env)
    /\ \A i \in 1..Len(calls) :
        /\ OnlyNumbersAndFunctions(calls[i].entry_env)
        /\ OnlyNumbersAndFunctions(calls[i].frame)
        /\ OnlyNumbersAndFunctions(calls[i].frame_after)
        /\ OnlyNumbersAndFunctions(calls[i].after_env)
    /\ (last.op = "eval" /\ last.res.kind = "err") =>
            last.res.err.msg # "Variable is not a number"

\* a call whose frame holds a function, a parameter and a name the body
\* bound, in a session that holds a function and a number
C27_Witness ==
    /\ last.op = "eval"
    /\ last.res.kind = "ok"
    /\ Len(calls) > 0
    /\ \E name \in DOMAIN env : env[name].kind = "Number"
    /\ \E name \in DOMAIN env : env[name].kind = "FnDef"
    /\ \E p \in DOMAIN calls[1].frame_after :
            /\ p \notin DOMAIN calls[1].entry_env
            /\ p \notin DOMAIN calls[1].frame
            /\ calls[1].frame_after[p].kind = "Number"
    /\ \E p \in DOMAIN calls[1].frame :
            /\ \E k \in 1..Len(calls[1].params) : calls[1].params[k] = p
            /\ calls[1].frame[p].kind = "Number"


\* the ids of a list of quests, in order
Ids(quests) == [i \in 1..Len(quests) |-> quests[i].id]

\* the set of ids of a list of quests
IdSet(quests) == {quests[i].id : i \in 1..Len(quests)}

\* no id is in both lists of a manager or twice in one of them
NoDuplicateIds(manager) ==
    LET all == manager.active_quests \o manager.completed_quests
    IN  \A i, j \in 1..Len(all) : all[i].id = all[j].id => i = j

RECURSIVE RewardsOf(_)
\* the rewards of a list of quests, quest after quest
RewardsOf(quests) ==
    IF quests = <<>> THEN <<>>
    ELSE Head(quests).rewards \o RewardsOf(Tail(quests))

\* C24: check_completion moves every active quest whose objectives are all
\* met by the context to the completed list, marks it completed and returns
\* its rewards; a quest with an unmet objective stays active; a completed
\* quest is never rewarded again, and a quest id is never in both lists or
\* twice in one list.
C24_CompletionMovesMetQuests ==
    [][ /\ NoDuplicateIds(quest_manager')
        /\ last'.op = "check_completion" =>
            LET met == SelectSeq(quest_manager.active_quests,
                                 LAMBDA q : all_objectives_met(q, last'.context))
                unmet == SelectSeq(quest_manager.active_quests,
                                   LAMBDA q : ~all_objectives_met(q, last'.context))
            IN  /\ Ids(quest_manager'.active_quests) = Ids(unmet)
                /\ IdSet(quest_manager'.completed_quests)
                        = IdSet(quest_manager.completed_quests) \cup IdSet(met)
                /\ \A i \in 1..Len(quest_manager'.completed_quests) :
                        quest_manager'.completed_quests[i].completed
                /\ last'.rewards = RewardsOf(met)
                /\ IdSet(met) \cap IdSet(quest_manager.completed_quests) = {}
      ]_vars

\* one call completed three of the starter quests and left six active
C24_Witness ==
    /\ last.op = "check_completion"
    /\ last.context = ContextVariableArithmetic
    /\ last.rewards = <<CoinReward("Variable", 2), CoinReward("Variable", 3),
                        CoinReward("Variable", 2)>>
    /\ IdSet(quest_manager.completed_quests)
            = {"hello_world", "first_variable", "variable_arithmetic"}
    /\ Len(quest_manager.active_quests) = 6


\* the manager after initialize_starter_quests and after each of the three
\* check_completion calls of the progression
StarterManager == initialize_starter_quests(QuestManager_new)
AfterArithmetic == check_completion(StarterManager, ContextArithmetic).manager
AfterVariable == check_completion(AfterArithmetic, ContextVariable).manager

\* C25 as the spec states it: after initialize_starter_quests there are 9
\* active quests and the only available one is hello_world; after a
\* check_completion with a context that recorded an arithmetic expression
\* the only available quest is first_variable; after one with a context
\* holding one variable it is variable_arithmetic; after one with a variable
\* and an arithmetic expression the available quests are first_function and
\* multiple_variables.
C25_StarterProgression ==
    [][ /\ (last'.op = "initialize_starter_quests"
                /\ quest_manager = QuestManager_new) =>
            /\ Len(quest_manager'.active_quests) = 9
            /\ Ids(get_available_quests(quest_manager')) = <<"hello_world">>
        /\ (last'.op = "check_completion" /\ quest_manager = StarterManager
                /\ last'.context = ContextArithmetic) =>
            Ids(get_available_quests(quest_manager')) = <<"first_variable">>
        /\ (last'.op = "check_completion" /\ quest_manager = AfterArithmetic
                /\ last'.context = ContextVariable) =>
            Ids(get_available_quests(quest_manager')) = <<"variable_arithmetic">>
        /\ (last'.op = "check_completion" /\ quest_manager = AfterVariable
                /\ last'.context = ContextVariableArithmetic) =>
            IdSet(get_available_quests(quest_manager'))
                = {"first_function", "multiple_variables"}
      ]_vars

\* C28 as the spec states it: check_completion completes a quest only if it
\* was unlocked at the time of the call, so every completed quest had all
\* its prerequisites completed before it.
C28_LockedNeverCompleted ==
    [][ last'.op = "check_completion" =>
            \A i \in 1..Len(quest_manager.active_quests) :
                LET quest == quest_manager.active_quests[i]
                IN  quest.id \in IdSet(quest_manager'.completed_quests) =>
                        /\ is_unlocked(quest)
                        /\ \A p \in 1..Len(quest.prerequisites) :
                                quest.prerequisites[p]
                                    \in IdSet(quest_manager.completed_quests)
      ]_vars

\* C29 as the spec states it: in every reachable state an active quest is
\* unlocked exactly when all of its prerequisites are in the completed
\* list, whatever the order in which quests are added and completed.
C29_UnlockedIffPrerequisitesCompleted ==
    \A i \in 1..Len(quest_manager.active_quests) :
        LET quest == quest_manager.active_quests[i]
        IN  is_unlocked(quest) <=>
                \A p \in 1..Len(quest.prerequisites) :
                    quest.prerequisites[p] \in IdSet(quest_manager.completed_quests)

\* C30 as the spec states it: when Repl::execute ends in an error (parse,
\* validation, spend or runtime), the execution context and the quest lists
\* are the same as before the call.
C30_FailedInputLeavesNoTrace ==
    [][ (last'.op = "execute" /\ "res" \in DOMAIN last' /\ last'.res.kind # "ok") =>
            /\ execution_context' = execution_context
            /\ quest_manager' = quest_manager
      ]_vars


====
